---- MODULE Spec2Model ----
(***************************************************************************)
(* QueueCTL: a durable job queue on SQLite, drained by a pool of worker    *)
(* threads (src/queuectl/database.py, queue_manager.py, worker.py).        *)
(*                                                                         *)
(* The store is the `jobs' table (a function from stored ids to rows) and  *)
(* the `config' table.  Every Database method that opens _get_cursor runs  *)
(* as one BEGIN IMMEDIATE transaction and is one atomic step here; plain   *)
(* SELECTs (get_job, get_retryable_jobs, get_config) are one step each.    *)
(* A method of QueueManager or Worker that makes several store calls is    *)
(* therefore several steps, with the in-memory Job objects it carries      *)
(* between them kept in the worker's local state.                          *)
(*                                                                         *)
(* Time is the UTC wall clock in whole seconds.  Timestamps written by the *)
(* program are naive datetime.utcnow() values stored as isoformat() text;  *)
(* on such text SQLite's string comparison agrees with the order of the    *)
(* instants, so they are integers here.  run_at is the one timestamp that  *)
(* comes from the caller (cli.py:59, datetime.fromisoformat) and may carry *)
(* a UTC offset; it is a pair of the wall-clock reading that the stored    *)
(* text starts with and the offset that follows it.                        *)
(***************************************************************************)
EXTENDS Integers, Sequences, FiniteSets, TLC

(***************************************************************************)
(* Bounds of the model.                                                    *)
(***************************************************************************)
MaxTicks == 3

Workers == {"w1", "w2"}
JobIds == {"j1", "j2"}
Clients == {"c1", "c2"}

(***************************************************************************)
(* Program constants.                                                      *)
(***************************************************************************)
DefaultMaxRetries == 3
DefaultBackoffBase == 2
DefaultPollInterval == 1
DefaultTimeoutSeconds == 300
ReapFactor == 120
MinStaleSeconds == 300
ReapPeriod == 60

NULL == -1

States == {"pending", "processing", "completed", "failed", "dead"}

NoError == "null"
RecoveredMsg == "Recovered from stale processing"
FailMsg == "error"

NoRunAt == [wall |-> NULL, off |-> 0]
NoJob == [id |-> "none"]

\* A client (a run of the command line) that is not between two store calls
\* of a command.
NoCall == [op |-> "none"]

\* What a call hands back to its caller: None, a bool, an int, or an
\* exception.
ReturnsNone == [kind |-> "None", val |-> 0]
ReturnsBool(b) == [kind |-> "bool", val |-> IF b THEN 1 ELSE 0]
ReturnsInt(n) == [kind |-> "int", val |-> n]
Raises(e) == [kind |-> e, val |-> 0]

\* A row of the workers table as register_worker at time t writes it, and
\* the absence of one.
NoWorkerRow == [registered |-> FALSE, stopped_at |-> NULL, last_heartbeat |-> NULL]
WorkerRow(t) == [registered |-> TRUE, stopped_at |-> NULL, last_heartbeat |-> t]

\* heartbeat_worker and stop_worker at time t: an UPDATE ... WHERE id = ?,
\* which changes the row of the worker when there is one.
Heartbeat(r, t) ==
    IF r.registered THEN [r EXCEPT !.last_heartbeat = t] ELSE r

Stopped(r, t) ==
    IF r.registered THEN [r EXCEPT !.stopped_at = t, !.last_heartbeat = t] ELSE r

\* The host's local time zone: the UTC offset of the wall-clock readings
\* before `at' and from `at' on.  A zone without daylight saving has one
\* offset; where daylight saving ends the offset drops by an hour, where it
\* begins the offset grows by an hour.
DstShift == 3600
ZoneAt == 1
UtcZone == [at |-> 0, before |-> 0, after |-> 0]
DstEndsZone == [at |-> ZoneAt, before |-> DstShift, after |-> 0]
DstBeginsZone == [at |-> ZoneAt, before |-> 0, after |-> DstShift]

\* The WorkerManager after start(): running, with one thread per worker.
\* stopping: stop() has set the flag and is joining the threads.  The last
\* two fields are history: a start() and a stop() have returned at the
\* checks of lines 117 and 146.
Supervising(W) ==
    [running |-> TRUE, threads |-> W, stopping |-> FALSE,
     start_noop |-> FALSE, stop_noop |-> FALSE]

\* The WorkerManager as __init__ leaves it.
NotStarted ==
    [running |-> FALSE, threads |-> {}, stopping |-> FALSE,
     start_noop |-> FALSE, stop_noop |-> FALSE]

VARIABLES
    now,        \* datetime.utcnow(), in seconds
    jobs,       \* the jobs table: stored id -> row
    config,     \* the config table, as Database.get_config returns it
    pc,         \* each worker's position in Worker.run
    cur,        \* each worker's claimed in-memory Job (worker.py `job')
    retryable,  \* each worker's list returned by get_retryable_jobs
    last_reap,  \* each worker's last_reap
    wconfig,    \* each worker's config read at startup
    reaped,     \* history: some reaper call has reset at least one row
    ret,        \* what the last call made by a client returned or raised
    tz,         \* the local time zone of the host
    stop,       \* WorkerManager.stop_event
    registry,   \* the workers table: worker -> row
    runs,       \* history: how often each job's command has been run
    mgr,        \* the WorkerManager: running, its threads, progress of stop
    inflight    \* each client's command between two of its store calls

vars == <<now, jobs, config, pc, cur, retryable, last_reap, wconfig, reaped,
          ret, tz, stop, registry, runs, mgr, inflight>>

Max(a, b) == IF a >= b THEN a ELSE b

RECURSIVE Pow(_, _)
Pow(b, n) == IF n = 0 THEN 1 ELSE b * Pow(b, n - 1)

DefaultConfig ==
    [max_retries |-> DefaultMaxRetries,
     backoff_base |-> DefaultBackoffBase,
     worker_poll_interval |-> DefaultPollInterval,
     default_timeout_seconds |-> DefaultTimeoutSeconds]

\* Job(...) as cli.enqueue builds it: pending, attempts 0, timestamps now.
\* A row carries the columns the transitions below read or write; command,
\* timeout_seconds, last_stdout, last_stderr and duration_ms are copied
\* through every write unread.
NewJob(id, mr, prio, ra, t) ==
    [id |-> id, state |-> "pending", attempts |-> 0, max_retries |-> mr,
     created_at |-> t, updated_at |-> t, error_message |-> NoError,
     next_retry_at |-> NULL, completed_at |-> NULL,
     priority |-> prio, run_at |-> ra]

\* INSERT OR REPLACE of the whole row.
save_job(js, job) == (job.id :> job) @@ js

(***************************************************************************)
(* Database: the store operations.                                         *)
(***************************************************************************)

\* WHERE state = 'pending' AND (run_at IS NULL OR run_at <= ?): the run_at
\* column is TEXT, compared as text with utcnow().isoformat().  The text of
\* a run_at starts with its wall-clock reading and the UTC offset, when the
\* caller gave one, comes after it: the offset never decides the comparison
\* at a granularity of seconds.
Eligible(js, t) ==
    {id \in DOMAIN js :
        /\ js[id].state = "pending"
        /\ (js[id].run_at = NoRunAt \/ js[id].run_at.wall <= t)}

\* ORDER BY priority DESC, created_at ASC: a sorts no later than b.
ClaimOrder(a, b) ==
    \/ a.priority > b.priority
    \/ a.priority = b.priority /\ a.created_at <= b.created_at

\* LIMIT 1: the rows the SELECT of get_pending_job may return; SQLite picks
\* any of the rows that tie on both sort keys.
FirstEligible(js, t) ==
    {id \in Eligible(js, t) :
        \A k \in Eligible(js, t) : ClaimOrder(js[id], js[k])}

\* Mutant of get_pending_job: the UPDATE of line 217 sets updated_at only.
MarkProcessing_KeepsState(r, t) == [r EXCEPT !.updated_at = t]

\* Mutant of get_pending_job: the UPDATE of line 217 clears error_message
\* as well.
MarkProcessing_ClearsError(r, t) ==
    [r EXCEPT !.state = "processing", !.updated_at = t, !.error_message = NoError]

\* The in-memory Job get_pending_job returns for row r.
MarkProcessing(r, t) == [r EXCEPT !.state = "processing", !.updated_at = t]

\* SELECT ... WHERE state = 'failed' AND next_retry_at <= now (a NULL
\* next_retry_at compares as unknown and is not selected).
Retryable(js, t) ==
    {id \in DOMAIN js :
        /\ js[id].state = "failed"
        /\ js[id].next_retry_at # NULL
        /\ js[id].next_retry_at <= t}

\* ORDER BY next_retry_at: the sequences of the rows of S in that order,
\* rows with equal next_retry_at in any order.
OrderedByRetry(js, S) ==
    {q \in [1..Cardinality(S) -> S] :
        /\ \A i, k \in 1..Cardinality(S) : i # k => q[i] # q[k]
        /\ \A i, k \in 1..Cardinality(S) :
              i < k => js[q[i]].next_retry_at <= js[q[k]].next_retry_at}

\* datetime.timestamp() of a naive datetime with wall-clock reading x: the
\* reading is taken as local time of the host.
Timestamp(x) == x - (IF x < tz.at THEN tz.before ELSE tz.after)

\* Mutant of reset_stale_processing_jobs: the SELECT of line 418 run with
\* the state pending.
StaleIds_OfPending(js, t, stale) ==
    {id \in DOMAIN js :
        /\ js[id].state = "pending"
        /\ Timestamp(js[id].updated_at) <= Timestamp(t) - stale}

\* reset_stale_processing_jobs: the ids it resets.  Both utcnow() and the
\* stored updated_at are naive UTC readings, converted by timestamp().
StaleIds(js, t, stale) ==
    {id \in DOMAIN js :
        /\ js[id].state = "processing"
        /\ Timestamp(js[id].updated_at) <= Timestamp(t) - stale}

\* The jobs table after reset_stale_processing_jobs(stale) at time t.
ResetStale(js, t, stale) ==
    [id \in DOMAIN js |->
        IF id \in StaleIds(js, t, stale)
        THEN [js[id] EXCEPT
                !.state = "pending",
                !.updated_at = t,
                !.error_message = IF @ = NoError THEN RecoveredMsg ELSE @]
        ELSE js[id]]

\* reset_stale_processing_jobs(stale) called by a client of the store
\* (worker.py discards the count; tests and maintenance code read it): one
\* transaction, which returns the number of rows it updated.
ResetStaleProcessing(stale) ==
    /\ jobs' = ResetStale(jobs, now, stale)
    /\ reaped' = (reaped \/ StaleIds(jobs, now, stale) # {})
    /\ ret' = ReturnsInt(Cardinality(StaleIds(jobs, now, stale)))
    /\ UNCHANGED <<now, config, pc, cur, retryable, last_reap, wconfig,
                 tz, stop, registry, runs, mgr, inflight>>

\* SELECT state, COUNT(*) FROM jobs GROUP BY state: the states that have a
\* row in the result, and the count of each.
GroupByState(js) == {js[id].state : id \in DOMAIN js}

CountOf(js, s) == Cardinality({id \in DOMAIN js : js[id].state = s})

\* Mutant of get_job_counts: line 260 left out, a state without a row in
\* the result of the SELECT has no count.
get_job_counts_NoZeroFill(js) ==
    [s \in States |-> IF s \in GroupByState(js) THEN CountOf(js, s) ELSE NULL]

\* get_job_counts: a dict with 0 for every JobState, overwritten with the
\* count of every row of the result.
get_job_counts(js) ==
    [s \in States |-> IF s \in GroupByState(js) THEN CountOf(js, s) ELSE 0]

\* get_jobs_by_state: SELECT * FROM jobs WHERE state = ? ORDER BY
\* created_at, the lists it may return (rows of equal created_at in any
\* order).
get_jobs_by_state(js, s) ==
    LET S == {id \in DOMAIN js : js[id].state = s}
    IN  {q \in [1..Cardinality(S) -> S] :
            /\ \A i, k \in 1..Cardinality(S) : i # k => q[i] # q[k]
            /\ \A i, k \in 1..Cardinality(S) :
                  i < k => js[q[i]].created_at <= js[q[k]].created_at}

\* The two calls made by a client (cli status, cli list): plain SELECTs.
JobCounts ==
    /\ ret' = [kind |-> "counts", val |-> get_job_counts(jobs)]
    /\ UNCHANGED <<now, jobs, config, pc, cur, retryable, last_reap, wconfig,
                 reaped, tz, stop, registry, runs, mgr, inflight>>

ListByState(s) ==
    /\ \E q \in get_jobs_by_state(jobs, s) :
          ret' = [kind |-> "list", val |-> [i \in 1..Len(q) |-> jobs[q[i]]]]
    /\ UNCHANGED <<now, jobs, config, pc, cur, retryable, last_reap, wconfig,
                 reaped, tz, stop, registry, runs, mgr, inflight>>

\* get_active_workers(stale_seconds) at time t: the rows without stopped_at
\* whose last_heartbeat, converted by timestamp(), is not below the
\* threshold utcnow().timestamp() - stale_seconds.
get_active_workers(reg, t, stale) ==
    Cardinality({w \in DOMAIN reg :
                    /\ reg[w].registered
                    /\ reg[w].stopped_at = NULL
                    /\ Timestamp(reg[w].last_heartbeat) >= Timestamp(t) - stale})

\* get_active_workers called by a client (cli status, the dashboard): a
\* plain SELECT.
ActiveWorkers(stale) ==
    /\ ret' = ReturnsInt(get_active_workers(registry, now, stale))
    /\ UNCHANGED <<now, jobs, config, pc, cur, retryable, last_reap, wconfig,
                 reaped, tz, stop, registry, runs, mgr, inflight>>

\* get_metrics, the average duration.  The inner SELECT takes the rows that
\* are completed and have a duration_ms, ORDER BY completed_at DESC LIMIT
\* 20: the row of greatest completed_at first, then the greatest of the
\* rest, up to the limit.
MetricsLimit == 20

Measured(js) ==
    {id \in DOMAIN js : js[id].state = "completed" /\ js[id].duration_ms # NULL}

RECURSIVE Latest(_, _, _)
Latest(js, E, k) ==
    IF k = 0 \/ E = {} THEN {}
    ELSE LET m == CHOOSE x \in E :
                     \A y \in E : js[y].completed_at <= js[x].completed_at
         IN  {m} \cup Latest(js, E \ {m}, k - 1)

RECURSIVE SumDuration(_, _)
SumDuration(js, S) ==
    IF S = {} THEN 0
    ELSE LET x == CHOOSE y \in S : TRUE
         IN  js[x].duration_ms + SumDuration(js, S \ {x})

\* int(x) of the quotient s / n: truncation towards zero.
Trunc(s, n) == IF s >= 0 THEN s \div n ELSE -((-s) \div n)

\* Mutant of get_metrics: the inner SELECT without its LIMIT.
avg_duration_ms_NoLimit(js) ==
    LET S == Measured(js)
    IN  IF S = {} THEN NULL ELSE Trunc(SumDuration(js, S), Cardinality(S))

\* metrics["avg_duration_ms"]: None when AVG ran over no row, else
\* int(AVG(duration_ms)).
avg_duration_ms(js) ==
    LET S == Latest(js, Measured(js), MetricsLimit)
    IN  IF S = {} THEN NULL ELSE Trunc(SumDuration(js, S), Cardinality(S))

\* get_metrics called by a client (cli status, the dashboard).
Metrics ==
    /\ ret' = [kind |-> "metrics", val |-> avg_duration_ms(jobs)]
    /\ UNCHANGED <<now, jobs, config, pc, cur, retryable, last_reap, wconfig,
                 reaped, tz, stop, registry, runs, mgr, inflight>>

\* max(int(config.worker_poll_interval) * 120, 300)
StaleThreshold(cfg) == Max(cfg.worker_poll_interval * ReapFactor, MinStaleSeconds)

(***************************************************************************)
(* QueueManager.                                                           *)
(***************************************************************************)

\* Mutant of execute_job: line 69 left out.
Completed_KeepsError(job, t) ==
    [job EXCEPT !.state = "completed", !.completed_at = t]

\* execute_job, returncode == 0: the Job it saves.
Completed(job, t) ==
    [job EXCEPT !.state = "completed", !.completed_at = t,
                !.error_message = NoError]

\* Mutants of _handle_job_failure: `>' for `>=' at line 108; the dead branch
\* storing the attempts it read; the delay computed before the increment;
\* attempts incremented twice.
HandleFailure_OffByOne(job, msg, t, cfg) ==
    LET a == job.attempts + 1
    IN  IF a > job.max_retries
        THEN [job EXCEPT !.attempts = a, !.error_message = msg,
                         !.updated_at = t, !.state = "dead",
                         !.next_retry_at = NULL]
        ELSE [job EXCEPT !.attempts = a, !.error_message = msg,
                         !.updated_at = t, !.state = "failed",
                         !.next_retry_at = t + Pow(cfg.backoff_base, a)]

HandleFailure_DeadEarly(job, msg, t, cfg) ==
    LET a == job.attempts + 1
    IN  IF a >= job.max_retries
        THEN [job EXCEPT !.error_message = msg,
                         !.updated_at = t, !.state = "dead",
                         !.next_retry_at = NULL]
        ELSE [job EXCEPT !.attempts = a, !.error_message = msg,
                         !.updated_at = t, !.state = "failed",
                         !.next_retry_at = t + Pow(cfg.backoff_base, a)]

HandleFailure_DelayBeforeIncrement(job, msg, t, cfg) ==
    LET a == job.attempts + 1
    IN  IF a >= job.max_retries
        THEN [job EXCEPT !.attempts = a, !.error_message = msg,
                         !.updated_at = t, !.state = "dead",
                         !.next_retry_at = NULL]
        ELSE [job EXCEPT !.attempts = a, !.error_message = msg,
                         !.updated_at = t, !.state = "failed",
                         !.next_retry_at = t + Pow(cfg.backoff_base, job.attempts)]

HandleFailure_CountsTwice(job, msg, t, cfg) ==
    LET a == job.attempts + 2
    IN  IF a >= job.max_retries
        THEN [job EXCEPT !.attempts = a, !.error_message = msg,
                         !.updated_at = t, !.state = "dead",
                         !.next_retry_at = NULL]
        ELSE [job EXCEPT !.attempts = a, !.error_message = msg,
                         !.updated_at = t, !.state = "failed",
                         !.next_retry_at = t + Pow(cfg.backoff_base, a)]

\* _handle_job_failure: the Job it saves.
HandleFailure(job, msg, t, cfg) ==
    LET a == job.attempts + 1
    IN  IF a >= job.max_retries
        THEN [job EXCEPT !.attempts = a, !.error_message = msg,
                         !.updated_at = t, !.state = "dead",
                         !.next_retry_at = NULL]
        ELSE [job EXCEPT !.attempts = a, !.error_message = msg,
                         !.updated_at = t, !.state = "failed",
                         !.next_retry_at = t + Pow(cfg.backoff_base, a)]

\* b ** n > lim, for b >= 2, without computing the power.
RECURSIVE Exceeds(_, _, _)
Exceeds(b, n, lim) ==
    IF n = 0 THEN 1 > lim ELSE Exceeds(b, n - 1, lim \div b)

\* Line 117: datetime.utcnow() + timedelta(seconds=delay) raises
\* OverflowError when the sum lies beyond datetime.max, which is some
\* 2.5 * 10^11 seconds away.  The delays of the model are either at most
\* DelayCap or above that distance (HugeBase squared and more), so that a
\* delay above DelayCap is one that overflows.
DelayCap == 2000000000
HugeBase == 1000000
OverflowMsg == "date value out of range"

Overflows(cfg, a) ==
    cfg.backoff_base >= 2 /\ Exceeds(cfg.backoff_base, a, DelayCap)

\* _handle_job_failure returns, having saved: the job is dead, or its delay
\* is in range.
FailureHandled(job, cfg) ==
    \/ job.attempts + 1 >= job.max_retries
    \/ ~Overflows(cfg, job.attempts + 1)

\* The in-memory Job after a call of _handle_job_failure that raised at
\* line 117: lines 104-106 have been executed.
FailureRaised(job, msg, t) ==
    [job EXCEPT !.attempts = @ + 1, !.error_message = msg, !.updated_at = t]

\* execute_job on a command that failed.  _handle_job_failure is called
\* inside the try block; when it raises, the handler of line 96 calls it a
\* second time on the same Job, and when that call raises too the exception
\* leaves execute_job with nothing saved (saved = FALSE).
FailureOutcome(job, msg, t, cfg) ==
    IF FailureHandled(job, cfg)
    THEN [saved |-> TRUE, job |-> HandleFailure(job, msg, t, cfg)]
    ELSE IF FailureHandled(FailureRaised(job, msg, t), cfg)
    THEN [saved |-> TRUE,
          job |-> HandleFailure(FailureRaised(job, msg, t), OverflowMsg, t, cfg)]
    ELSE [saved |-> FALSE, job |-> job]

\* What execute_job hands back for a command that ended with exit code 0
\* (ok) or in one of the failure paths: True, False, or the exception of
\* the second call of _handle_job_failure.
ExecuteReturns(job, ok, cfg) ==
    IF ok THEN ReturnsBool(TRUE)
    ELSE IF FailureOutcome(job, FailMsg, 0, cfg).saved THEN ReturnsBool(FALSE)
    ELSE Raises("OverflowError")

\* Mutant of process_retries: line 133 left out.
Promoted_KeepsRetryAt(job, t) ==
    [job EXCEPT !.state = "pending", !.updated_at = t]

\* process_retries: the Job it saves for an element of its list.
Promoted(job, t) ==
    [job EXCEPT !.state = "pending", !.next_retry_at = NULL, !.updated_at = t]

\* Mutant of retry_dlq_job: line 183 left out.
Requeued_KeepsAttempts(job, t) ==
    [job EXCEPT !.state = "pending",
                !.error_message = NoError, !.next_retry_at = NULL,
                !.updated_at = t]

\* retry_dlq_job: the Job it saves.
Requeued(job, t) ==
    [job EXCEPT !.state = "pending", !.attempts = 0,
                !.error_message = NoError, !.next_retry_at = NULL,
                !.updated_at = t]

(***************************************************************************)
(* Operator commands (cli.py).  One command runs at a time, so the lookup  *)
(* and the save of a command are one step.                                 *)
(***************************************************************************)

\* Mutant of enqueue_job: line 31 left out, max_retries always taken from
\* the config.
Enqueue_ConfigAlways(id, mr, prio, ra) ==
    /\ id \notin DOMAIN jobs
    /\ jobs' = save_job(jobs, NewJob(id, config.max_retries, prio, ra, now))
    /\ ret' = ReturnsNone
    /\ UNCHANGED <<now, config, pc, cur, retryable, last_reap, wconfig, reaped,
                 tz, stop, registry, runs, mgr, inflight>>

\* Mutant of enqueue_job: lines 26-28 left out.
Enqueue_NoLookup(id, mr, prio, ra) ==
    /\ jobs' = save_job(jobs,
                 NewJob(id, IF mr = NULL THEN config.max_retries ELSE mr,
                        prio, ra, now))
    /\ ret' = ReturnsNone
    /\ UNCHANGED <<now, config, pc, cur, retryable, last_reap, wconfig, reaped,
                 tz, stop, registry, runs, mgr, inflight>>

\* QueueManager.enqueue_job on the Job cli.enqueue builds; mr = NULL is a
\* request without max_retries.  This is the call that finds no stored job
\* of the id and saves.
Enqueue(id, mr, prio, ra) ==
    /\ id \notin DOMAIN jobs
    /\ jobs' = save_job(jobs,
                 NewJob(id, IF mr = NULL THEN config.max_retries ELSE mr,
                        prio, ra, now))
    /\ ret' = ReturnsNone
    /\ UNCHANGED <<now, config, pc, cur, retryable, last_reap, wconfig, reaped,
                 tz, stop, registry, runs, mgr, inflight>>

\* enqueue_job of client c as its store calls run when other commands and
\* the workers run at the same time.  Lines 26-28: get_job, a plain SELECT;
\* with a stored job of the id the call raises ValueError, otherwise the
\* client goes on with the Job it has built.
EnqueueLookup(c, id, mr, prio, ra) ==
    /\ inflight[c] = NoCall
    /\ IF id \in DOMAIN jobs
       THEN /\ ret' = Raises("ValueError")
            /\ UNCHANGED inflight
       ELSE /\ inflight' = [inflight EXCEPT ![c] =
                               [op |-> "enqueue",
                                job |-> NewJob(id, mr, prio, ra, now)]]
            /\ UNCHANGED ret
    /\ UNCHANGED <<now, jobs, config, pc, cur, retryable, last_reap, wconfig,
                 reaped, tz, stop, registry, runs, mgr>>

\* Lines 31-35: max_retries is taken from the config for a Job without one,
\* and save_job writes the row, INSERT OR REPLACE.
EnqueueSave(c) ==
    /\ inflight[c].op = "enqueue"
    /\ jobs' = save_job(jobs,
                 IF inflight[c].job.max_retries = NULL
                 THEN [inflight[c].job EXCEPT !.max_retries = config.max_retries]
                 ELSE inflight[c].job)
    /\ ret' = ReturnsNone
    /\ inflight' = [inflight EXCEPT ![c] = NoCall]
    /\ UNCHANGED <<now, config, pc, cur, retryable, last_reap, wconfig,
                 reaped, tz, stop, registry, runs, mgr>>

\* QueueManager.enqueue_job, lines 26-28: the call that finds a stored job
\* of the id and raises ValueError.
EnqueueRejected(id) ==
    /\ id \in DOMAIN jobs
    /\ ret' = Raises("ValueError")
    /\ UNCHANGED <<now, jobs, config, pc, cur, retryable, last_reap, wconfig,
                 reaped, tz, stop, registry, runs, mgr, inflight>>

\* Mutant of retry_dlq_job: lines 177-179 left out.
RequeueFromDLQ_AnyState(id) ==
    /\ id \in DOMAIN jobs
    /\ jobs' = save_job(jobs, Requeued(jobs[id], now))
    /\ ret' = ReturnsBool(TRUE)
    /\ UNCHANGED <<now, config, pc, cur, retryable, last_reap, wconfig, reaped,
                 tz, stop, registry, runs, mgr, inflight>>

\* QueueManager.retry_dlq_job, the call that returns True.
RequeueFromDLQ(id) ==
    /\ id \in DOMAIN jobs
    /\ jobs[id].state = "dead"
    /\ jobs' = save_job(jobs, Requeued(jobs[id], now))
    /\ ret' = ReturnsBool(TRUE)
    /\ UNCHANGED <<now, config, pc, cur, retryable, last_reap, wconfig, reaped,
                 tz, stop, registry, runs, mgr, inflight>>

\* QueueManager.retry_dlq_job, lines 173-179: the calls that return False,
\* for an id that is not stored or a job that is not dead.
RequeueRefused(id) ==
    /\ IF id \in DOMAIN jobs THEN jobs[id].state # "dead" ELSE TRUE
    /\ ret' = ReturnsBool(FALSE)
    /\ UNCHANGED <<now, jobs, config, pc, cur, retryable, last_reap, wconfig,
                 reaped, tz, stop, registry, runs, mgr, inflight>>

\* QueueManager.delete_job: DELETE FROM jobs WHERE id = ?, one transaction,
\* which returns whether it deleted a row.
Delete(id) ==
    /\ id \in DOMAIN jobs
    /\ jobs' = [k \in DOMAIN jobs \ {id} |-> jobs[k]]
    /\ ret' = ReturnsBool(TRUE)
    /\ UNCHANGED <<now, config, pc, cur, retryable, last_reap, wconfig, reaped,
                 tz, stop, registry, runs, mgr, inflight>>

DeleteMissing(id) ==
    /\ id \notin DOMAIN jobs
    /\ ret' = ReturnsBool(FALSE)
    /\ UNCHANGED <<now, jobs, config, pc, cur, retryable, last_reap, wconfig,
                 reaped, tz, stop, registry, runs, mgr, inflight>>

\* cli `config set backoff-base b'.
SetBackoffBase(b) ==
    /\ config.backoff_base # b
    /\ config' = [config EXCEPT !.backoff_base = b]
    /\ UNCHANGED <<now, jobs, pc, cur, retryable, last_reap, wconfig, reaped,
                 ret, tz, stop, registry, runs, mgr, inflight>>

\* cli `config set max-retries m'.
SetMaxRetries(m) ==
    /\ config.max_retries # m
    /\ config' = [config EXCEPT !.max_retries = m]
    /\ UNCHANGED <<now, jobs, pc, cur, retryable, last_reap, wconfig, reaped,
                 ret, tz, stop, registry, runs, mgr, inflight>>

\* cli `config set' of client c as its store calls run when another command
\* runs at the same time.  Line 437: get_config, a plain SELECT of the whole
\* record; the client sets the attribute of its key on that record.
ConfigRead(c, key, value) ==
    /\ inflight[c] = NoCall
    /\ inflight' = [inflight EXCEPT ![c] =
                      [op |-> "config", key |-> key, value |-> value,
                       config |-> [config EXCEPT ![key] = value]]]
    /\ UNCHANGED <<now, jobs, config, pc, cur, retryable, last_reap, wconfig,
                 reaped, ret, tz, stop, registry, runs, mgr>>

\* Line 461: save_config writes every key of the client's record, INSERT OR
\* REPLACE, in one transaction.
ConfigSave(c) ==
    /\ inflight[c].op = "config"
    /\ config' = inflight[c].config
    /\ inflight' = [inflight EXCEPT ![c] = NoCall]
    /\ UNCHANGED <<now, jobs, pc, cur, retryable, last_reap, wconfig,
                 reaped, ret, tz, stop, registry, runs, mgr>>

(***************************************************************************)
(* Worker.run, one step per store call.                                    *)
(***************************************************************************)

\* Lines 36-49: register, read the config, reap once, remember last_reap.
Startup(w) ==
    /\ pc[w] = "start"
    /\ registry' = [registry EXCEPT ![w] = WorkerRow(now)]
    /\ wconfig' = [wconfig EXCEPT ![w] = config]
    /\ jobs' = ResetStale(jobs, now, StaleThreshold(config))
    /\ reaped' = (reaped \/ StaleIds(jobs, now, StaleThreshold(config)) # {})
    /\ last_reap' = [last_reap EXCEPT ![w] = now]
    /\ pc' = [pc EXCEPT ![w] = "top"]
    /\ UNCHANGED <<now, config, cur, retryable, ret, tz, stop, runs, mgr,
                   inflight>>

\* Lines 51-66: the head of an iteration, entered while the stop flag is
\* not set: heartbeat, and the reaper when 60 s have passed since this
\* worker's last one.
LoopTop(w) ==
    /\ pc[w] = "top"
    /\ ~stop
    /\ IF now - last_reap[w] >= ReapPeriod
       THEN /\ jobs' = ResetStale(jobs, now, StaleThreshold(wconfig[w]))
            /\ reaped' = (reaped \/ StaleIds(jobs, now, StaleThreshold(wconfig[w])) # {})
            /\ last_reap' = [last_reap EXCEPT ![w] = now]
       ELSE UNCHANGED <<jobs, reaped, last_reap>>
    /\ registry' = [registry EXCEPT ![w] = Heartbeat(@, now)]
    /\ pc' = [pc EXCEPT ![w] = "retries"]
    /\ UNCHANGED <<now, config, cur, retryable, wconfig, ret, tz, stop, runs, mgr,
                   inflight>>

\* process_retries, line 128: the list get_retryable_jobs returns, a copy
\* of each row as it is at this moment.
ReadRetryable(w) ==
    /\ pc[w] = "retries"
    /\ \E q \in OrderedByRetry(jobs, Retryable(jobs, now)) :
          /\ retryable' = [retryable EXCEPT ![w] =
                              [i \in 1..Len(q) |-> jobs[q[i]]]]
          /\ pc' = [pc EXCEPT ![w] = IF Len(q) = 0 THEN "claim" ELSE "promote"]
    /\ UNCHANGED <<now, jobs, config, cur, last_reap, wconfig, reaped,
                 ret, tz, stop, registry, runs, mgr, inflight>>

\* process_retries, lines 131-137: one iteration of the loop over the list,
\* which saves the copy read at line 128.
PromoteOne(w) ==
    /\ pc[w] = "promote"
    /\ jobs' = save_job(jobs, Promoted(Head(retryable[w]), now))
    /\ retryable' = [retryable EXCEPT ![w] = Tail(@)]
    /\ pc' = [pc EXCEPT ![w] = IF Len(retryable[w]) = 1 THEN "claim" ELSE "promote"]
    /\ UNCHANGED <<now, config, cur, last_reap, wconfig, reaped,
                 ret, tz, stop, registry, runs, mgr, inflight>>

\* get_next_job: Database.get_pending_job, one transaction.  With no row to
\* claim the worker sleeps and starts its next iteration.
ClaimNext(w) ==
    /\ pc[w] = "claim"
    /\ IF FirstEligible(jobs, now) = {}
       THEN /\ pc' = [pc EXCEPT ![w] = "top"]
            /\ UNCHANGED <<jobs, cur>>
       ELSE \E id \in FirstEligible(jobs, now) :
            /\ jobs' = [jobs EXCEPT ![id] = MarkProcessing(jobs[id], now)]
            /\ cur' = [cur EXCEPT ![w] = MarkProcessing(jobs[id], now)]
            /\ pc' = [pc EXCEPT ![w] = "exec"]
    /\ UNCHANGED <<now, config, retryable, last_reap, wconfig, reaped,
                 ret, tz, stop, registry, runs, mgr, inflight>>

\* The history of a job's command after one more run of it.
Again(r) == IF r = "never" THEN "once" ELSE "again"

\* execute_job: the command has ended (ok: exit code 0; otherwise any of
\* the failure paths) and the outcome is saved from the worker's Job.  The
\* store call itself succeeds.  An exception that leaves execute_job is
\* caught at worker.py:85 and the worker goes on with its next iteration.
ExecuteJob(w, ok) ==
    /\ pc[w] = "exec"
    /\ jobs' = IF ok THEN save_job(jobs, Completed(cur[w], now))
               ELSE IF FailureOutcome(cur[w], FailMsg, now, config).saved
               THEN save_job(jobs, FailureOutcome(cur[w], FailMsg, now, config).job)
               ELSE jobs
    /\ cur' = [cur EXCEPT ![w] = NoJob]
    /\ pc' = [pc EXCEPT ![w] = "top"]
    /\ runs' = [runs EXCEPT ![cur[w].id] = Again(@)]
    /\ UNCHANGED <<now, config, retryable, last_reap, wconfig, reaped,
                 ret, tz, stop, registry, mgr, inflight>>

(***************************************************************************)
(* Store errors.  A store call may raise (sqlite3.OperationalError when    *)
(* the database stays locked for the 5 s of the connection's timeout, or   *)
(* an I/O error); _get_cursor then rolls the transaction back, so that the *)
(* call has written nothing.  Each action below is the handler in which    *)
(* one store call raises, up to the except clause that catches it.         *)
(***************************************************************************)
StoreErrMsg == "database is locked"

\* Lines 36-49 when one of the three store calls raises.  register_worker
\* and reset_stale_processing_jobs are called inside try blocks and the
\* worker goes on; get_config at line 41 is called outside of any, so that
\* the exception leaves run and ends the worker's thread.
StartupError(w, call) ==
    /\ pc[w] = "start"
    /\ registry' = IF call = "register" THEN registry
                   ELSE [registry EXCEPT ![w] = WorkerRow(now)]
    /\ IF call = "config"
       THEN /\ pc' = [pc EXCEPT ![w] = "died"]
            /\ UNCHANGED <<wconfig, jobs, reaped, last_reap>>
       ELSE /\ pc' = [pc EXCEPT ![w] = "top"]
            /\ wconfig' = [wconfig EXCEPT ![w] = config]
            /\ last_reap' = [last_reap EXCEPT ![w] = now]
            /\ IF call = "reaper"
               THEN UNCHANGED <<jobs, reaped>>
               ELSE /\ jobs' = ResetStale(jobs, now, StaleThreshold(config))
                    /\ reaped' = (reaped \/ StaleIds(jobs, now, StaleThreshold(config)) # {})
    /\ UNCHANGED <<now, config, cur, retryable, ret, tz, stop, runs, mgr,
                   inflight>>

\* Lines 51-66 when the heartbeat or the reaper call raises: both are
\* inside try blocks of their own, and last_reap is refreshed either way.
LoopTopError(w, call) ==
    /\ pc[w] = "top"
    /\ ~stop
    /\ call = "reaper" => now - last_reap[w] >= ReapPeriod
    /\ registry' = IF call = "heartbeat" THEN registry
                   ELSE [registry EXCEPT ![w] = Heartbeat(@, now)]
    /\ IF now - last_reap[w] >= ReapPeriod
       THEN /\ last_reap' = [last_reap EXCEPT ![w] = now]
            /\ IF call = "reaper"
               THEN UNCHANGED <<jobs, reaped>>
               ELSE /\ jobs' = ResetStale(jobs, now, StaleThreshold(wconfig[w]))
                    /\ reaped' = (reaped \/ StaleIds(jobs, now, StaleThreshold(wconfig[w])) # {})
       ELSE UNCHANGED <<jobs, reaped, last_reap>>
    /\ pc' = [pc EXCEPT ![w] = "retries"]
    /\ UNCHANGED <<now, config, cur, retryable, wconfig, ret, tz, stop, runs, mgr,
                   inflight>>

\* Lines 67-71 when get_retryable_jobs, a save_job of process_retries or
\* get_pending_job raises: the exception is caught at line 85, the worker
\* sleeps a second and starts its next iteration.
LoopBodyError(w) ==
    /\ pc[w] \in {"retries", "promote", "claim"}
    /\ retryable' = [retryable EXCEPT ![w] = <<>>]
    /\ pc' = [pc EXCEPT ![w] = "top"]
    /\ UNCHANGED <<now, jobs, config, cur, last_reap, wconfig, reaped,
                 ret, tz, stop, registry, runs, mgr, inflight>>

\* The in-memory Job at the moment the save_job of the outcome is called:
\* line 73 for exit code 0, line 121 otherwise.
OutcomeJob(job, ok, t, cfg) ==
    IF ok THEN Completed(job, t) ELSE HandleFailure(job, FailMsg, t, cfg)

\* execute_job when the save_job of the outcome raises.  The call is inside
\* the try block, so the handler of line 96 runs _handle_job_failure on
\* the Job as the first path left it; its save_job succeeds, or raises as
\* well (again), and then the exception leaves execute_job with nothing
\* stored and is caught at worker.py:85.
ExecuteJobError(w, ok, again) ==
    /\ pc[w] = "exec"
    /\ ok \/ FailureHandled(cur[w], config)
    /\ jobs' = IF ~again /\ FailureHandled(OutcomeJob(cur[w], ok, now, config), config)
               THEN save_job(jobs, HandleFailure(OutcomeJob(cur[w], ok, now, config),
                                                 StoreErrMsg, now, config))
               ELSE jobs
    /\ cur' = [cur EXCEPT ![w] = NoJob]
    /\ pc' = [pc EXCEPT ![w] = "top"]
    /\ runs' = [runs EXCEPT ![cur[w].id] = Again(@)]
    /\ UNCHANGED <<now, config, retryable, last_reap, wconfig, reaped,
                 ret, tz, stop, registry, mgr, inflight>>

\* Lines 89-93 when stop_worker raises: swallowed, the worker returns.
ExitError(w) ==
    /\ pc[w] = "top"
    /\ stop
    /\ pc' = [pc EXCEPT ![w] = "done"]
    /\ UNCHANGED <<now, jobs, config, cur, retryable, last_reap, wconfig,
                 reaped, ret, tz, stop, registry, runs, mgr, inflight>>

\* WorkerManager.stop (and the signal handler) on a manager that is
\* running, lines 144-150: the stop flag is set, and stop goes on to join
\* the threads.
SetStop ==
    /\ ~stop
    /\ mgr.running
    /\ stop' = TRUE
    /\ mgr' = [mgr EXCEPT !.stopping = TRUE]
    /\ UNCHANGED <<now, jobs, config, pc, cur, retryable, last_reap, wconfig,
                 reaped, ret, tz, registry, runs, inflight>>

\* WorkerManager.stop, lines 146-147: the manager is not running and stop
\* returns.
StopRefused ==
    /\ ~mgr.running
    /\ mgr' = [mgr EXCEPT !.stop_noop = TRUE]
    /\ UNCHANGED <<now, jobs, config, pc, cur, retryable, last_reap, wconfig,
                 reaped, ret, tz, stop, registry, runs, inflight>>

\* WorkerManager.stop, lines 152-158: every join has returned, because the
\* thread has ended or, for a thread whose command is still running, after
\* the timeout of 30 s; the list of threads is cleared.
StopReturns ==
    /\ mgr.running
    /\ mgr.stopping
    /\ \A w \in mgr.threads : pc[w] \in {"done", "died", "exec"}
    /\ mgr' = [mgr EXCEPT !.running = FALSE, !.threads = {}, !.stopping = FALSE]
    /\ UNCHANGED <<now, jobs, config, pc, cur, retryable, last_reap, wconfig,
                 reaped, ret, tz, stop, registry, runs, inflight>>

\* Mutant of WorkerManager.start: lines 117-119 left out.
StartWorkers_NoCheck(W) ==
    /\ \A w \in W : pc[w] = "none"
    /\ mgr' = [mgr EXCEPT !.running = TRUE, !.threads = @ \cup W]
    /\ stop' = FALSE
    /\ pc' = [w \in Workers |-> IF w \in W THEN "start" ELSE pc[w]]
    /\ UNCHANGED <<now, jobs, config, cur, retryable, last_reap, wconfig,
                 reaped, ret, tz, registry, runs, inflight>>

\* WorkerManager.start(worker_count), lines 115-134, W being the Worker
\* objects it creates (each call creates new ones, with ids of their own):
\* a manager that is running returns with a warning; otherwise it is set
\* running, the stop flag is cleared and one thread per worker is started.
StartWorkers(W) ==
    IF mgr.running
    THEN /\ mgr' = [mgr EXCEPT !.start_noop = TRUE]
         /\ UNCHANGED <<now, jobs, config, pc, cur, retryable, last_reap,
                      wconfig, reaped, ret, tz, stop, registry, runs,
                      inflight>>
    ELSE /\ \A w \in W : pc[w] = "none"
         /\ mgr' = [mgr EXCEPT !.running = TRUE, !.threads = @ \cup W]
         /\ stop' = FALSE
         /\ pc' = [w \in Workers |-> IF w \in W THEN "start" ELSE pc[w]]
         /\ UNCHANGED <<now, jobs, config, cur, retryable, last_reap, wconfig,
                      reaped, ret, tz, registry, runs, inflight>>

\* Lines 51 and 89-93: the loop condition finds the stop flag set; the
\* worker marks itself stopped in the registry and returns.
Exit(w) ==
    /\ pc[w] = "top"
    /\ stop
    /\ registry' = [registry EXCEPT ![w] = Stopped(@, now)]
    /\ pc' = [pc EXCEPT ![w] = "done"]
    /\ UNCHANGED <<now, jobs, config, cur, retryable, last_reap, wconfig,
                 reaped, ret, tz, stop, runs, mgr, inflight>>

\* The process of worker w is killed while its command runs: it takes no
\* further step, and the row it claimed stays as the claim wrote it.  (A
\* worker killed between two commands holds no job.)
Crash(w) ==
    /\ pc[w] = "exec"
    /\ pc' = [pc EXCEPT ![w] = "crashed"]
    /\ UNCHANGED <<now, jobs, config, cur, retryable, last_reap, wconfig,
                 reaped, ret, tz, stop, registry, runs, mgr, inflight>>

(***************************************************************************)
(* The clock.  It advances by a second, or by the reaper's threshold; a    *)
(* command runs for as long as its timeout_seconds allows, which the       *)
(* caller chooses, so the clock may advance at any position of a worker.   *)
(***************************************************************************)
TicksTaken(t) == (t \div MinStaleSeconds) + (t % MinStaleSeconds)

Tick(d) ==
    /\ TicksTaken(now) < MaxTicks
    /\ now' = now + d
    /\ UNCHANGED <<jobs, config, pc, cur, retryable, last_reap, wconfig, reaped,
                 ret, tz, stop, registry, runs, mgr, inflight>>

(***************************************************************************)
(* The pool: workers and operator commands in any interleaving.            *)
(***************************************************************************)
Init ==
    /\ now = 0
    /\ jobs = <<>>
    /\ config = DefaultConfig
    /\ pc = [w \in Workers |-> "start"]
    /\ cur = [w \in Workers |-> NoJob]
    /\ retryable = [w \in Workers |-> <<>>]
    /\ last_reap = [w \in Workers |-> 0]
    /\ wconfig = [w \in Workers |-> DefaultConfig]
    /\ reaped = FALSE
    /\ ret = ReturnsNone
    /\ tz = UtcZone
    /\ stop = FALSE
    /\ registry = [w \in Workers |-> NoWorkerRow]
    /\ runs = [id \in JobIds |-> "never"]
    /\ mgr = Supervising(Workers)
    /\ inflight = [c \in Clients |-> NoCall]

PoolJobIds == {"j1"}
PoolMaxRetries == {1, 2}

Next ==
    \/ \E id \in PoolJobIds, mr \in PoolMaxRetries : Enqueue(id, mr, 0, NoRunAt)
    \/ \E id \in PoolJobIds : RequeueFromDLQ(id)
    \/ \E w \in Workers : Startup(w)
    \/ \E w \in Workers : LoopTop(w)
    \/ \E w \in Workers : ReadRetryable(w)
    \/ \E w \in Workers : PromoteOne(w)
    \/ \E w \in Workers : ClaimNext(w)
    \/ \E w \in Workers, ok \in BOOLEAN : ExecuteJob(w, ok)
    \/ \E d \in {1, MinStaleSeconds} : Tick(d)

Spec == Init /\ [][Next]_vars

(***************************************************************************)
(* Properties of the pool.                                                 *)
(***************************************************************************)

\* Worker w holds job id: it has claimed it and has not yet saved the
\* outcome of executing it.
Holds(w, id) == pc[w] = "exec" /\ cur[w].id = id

\* C1: as long as no reaper call has reset a row, no job is held by two
\* workers at the same time.
C1_NoDoubleClaim ==
    ~reaped =>
        \A w1, w2 \in Workers, id \in JobIds :
            Holds(w1, id) /\ Holds(w2, id) => w1 = w2

\* C2: completed is strictly terminal: no step changes the stored state of
\* a job that is completed.
C2_CompletedIsTerminal ==
    [][\A id \in DOMAIN jobs :
          jobs[id].state = "completed" /\ id \in DOMAIN jobs'
            => jobs'[id].state = "completed"]_vars

\* C3: the only step that changes the stored state of a dead job is a
\* successful RequeueFromDLQ, and it changes it to pending.
C3_DeadLeavesOnlyByRequeue ==
    [][\A id \in DOMAIN jobs :
          jobs[id].state = "dead" /\ id \in DOMAIN jobs'
              /\ jobs'[id].state # "dead"
            => RequeueFromDLQ(id) /\ jobs'[id].state = "pending"]_vars

\* C4: the stored attempts of a job never decreases in a step, except in
\* the step of RequeueFromDLQ, which sets it to 0.
C4_AttemptsNeverDecrease ==
    [][\A id \in DOMAIN jobs :
          id \in DOMAIN jobs' /\ jobs'[id].attempts < jobs[id].attempts
            => RequeueFromDLQ(id) /\ jobs'[id].attempts = 0]_vars

\* C8: every job whose state is failed has a next_retry_at and
\* attempts < max_retries.
C8_FailedHasRetryAndBudget ==
    \A id \in DOMAIN jobs :
        jobs[id].state = "failed"
          => /\ jobs[id].next_retry_at # NULL
             /\ jobs[id].attempts < jobs[id].max_retries

\* A failure with budget left has been recorded.
C8_Witness ==
    \E id \in DOMAIN jobs :
        /\ jobs[id].state = "failed"
        /\ jobs[id].attempts = 1
        /\ jobs[id].max_retries = 2

\* C9: every job whose state is dead has no next_retry_at and
\* attempts >= max_retries.
C9_DeadHasNoRetryAndNoBudget ==
    \A id \in DOMAIN jobs :
        jobs[id].state = "dead"
          => /\ jobs[id].next_retry_at = NULL
             /\ jobs[id].attempts >= jobs[id].max_retries

\* A job has died after a retry: its second failure exhausted max_retries.
C9_Witness ==
    \E id \in DOMAIN jobs :
        /\ jobs[id].state = "dead"
        /\ jobs[id].attempts = 2
        /\ jobs[id].max_retries = 2

\* C10: a job with a next_retry_at is in state failed.
C10_RetryAtOnlyWhileFailed ==
    \A id \in DOMAIN jobs :
        jobs[id].next_retry_at # NULL => jobs[id].state = "failed"

\* A failed job has been promoted and claimed again, and the reaper has
\* reset a row: every writer of next_retry_at has acted.
C10_Witness ==
    /\ reaped
    /\ \E id \in DOMAIN jobs :
        /\ jobs[id].state \in {"pending", "processing"}
        /\ jobs[id].attempts = 1
        /\ jobs[id].next_retry_at = NULL

AsEnqueued(r) ==
    [id |-> r.id, max_retries |-> r.max_retries, priority |-> r.priority,
     run_at |-> r.run_at, created_at |-> r.created_at]

\* C39: after Enqueue no operation other than Delete changes the id,
\* max_retries, priority, run_at or created_at of a job: every step leaves
\* these fields of every job that is stored before and after it as they
\* are, outcome writes from a stale in-memory copy included.
C39_EnqueuedFieldsNeverChange ==
    [][\A id \in DOMAIN jobs :
          id \in DOMAIN jobs' => AsEnqueued(jobs'[id]) = AsEnqueued(jobs[id])]_vars

\* C38: in every state of the store a job has a completed_at if and only
\* if its state is completed, and every completed job has no
\* error_message.
C38_CompletedAtIffCompleted ==
    \A id \in DOMAIN jobs :
        /\ jobs[id].completed_at # NULL <=> jobs[id].state = "completed"
        /\ jobs[id].state = "completed" => jobs[id].error_message = NoError

\* The jobs that are failed in js with a next_retry_at that t has reached.
DueForRetry(js, t) ==
    {id \in DOMAIN js :
        /\ js[id].state = "failed"
        /\ js[id].next_retry_at # NULL
        /\ js[id].next_retry_at <= t}

\* C16: PromoteRetries takes up every job that is failed with
\* next_retry_at <= now, and each job it moves to pending is at that moment
\* failed with next_retry_at <= now and is left pending with next_retry_at
\* cleared: a job that is not failed, or failed with a next_retry_at still
\* in the future, is left as it is.
C16_PromotesExactlyTheDueFailedJobs ==
    [][\A w \in Workers :
          /\ ReadRetryable(w) =>
                {retryable'[w][i].id : i \in 1..Len(retryable'[w])}
                    = DueForRetry(jobs, now)
          /\ PromoteOne(w) =>
                LET id == Head(retryable[w]).id
                IN  /\ id \in DueForRetry(jobs, now)
                    /\ jobs'[id].state = "pending"
                    /\ jobs'[id].next_retry_at = NULL
                    /\ \A k \in DOMAIN jobs \ {id} : jobs'[k] = jobs[k]]_vars

\* C31: a failed job is not claimed or executed before its next_retry_at
\* has passed.  A claim takes a pending row only, and no step makes a job
\* claimable or claimed (pending or processing) while it is failed with a
\* next_retry_at that the clock has not reached, so that every execution
\* after a failure starts at or after the next_retry_at of that failure.
C31_NoRetryBeforeItIsDue ==
    [][/\ \A w \in Workers, id \in JobIds :
             pc[w] = "claim" /\ pc'[w] = "exec" /\ cur'[w].id = id =>
                 jobs[id].state = "pending"
       /\ \A id \in DOMAIN jobs :
             /\ jobs[id].state = "failed"
             /\ jobs[id].next_retry_at # NULL
             /\ now < jobs[id].next_retry_at
             => jobs'[id].state \notin {"pending", "processing"}]_vars

(***************************************************************************)
(* Retry accounting: one worker draining one job, under every backoff base *)
(* and retry budget of the bounded input sets.                             *)
(***************************************************************************)
RetryWorker == "w1"
RetryJobIds == {"j1"}
RetryMaxRetries == {NULL, 0, 1, 2, 4}
BackoffBases == {1, 2, 3}

NextRetry ==
    \/ \E id \in RetryJobIds, mr \in RetryMaxRetries : Enqueue(id, mr, 0, NoRunAt)
    \/ \E b \in BackoffBases : SetBackoffBase(b)
    \/ Startup(RetryWorker)
    \/ LoopTop(RetryWorker)
    \/ ReadRetryable(RetryWorker)
    \/ PromoteOne(RetryWorker)
    \/ ClaimNext(RetryWorker)
    \/ \E ok \in BOOLEAN : ExecuteJob(RetryWorker, ok)
    \/ \E d \in {1, MinStaleSeconds} : Tick(d)

SpecRetry == Init /\ [][NextRetry]_vars

\* Worker w saves the outcome of a failed execution in this step.
FailureStep(w) ==
    /\ pc[w] = "exec"
    /\ pc'[w] = "top"
    /\ jobs'[cur[w].id].state \in {"failed", "dead"}

\* With max_retries = m >= 1, attempts counts the failed executions so far:
\* a failed job has 1 <= attempts < m, a dead one attempts = m and no
\* next_retry_at, and no job has attempts > m.
C6_Counted ==
    \A id \in DOMAIN jobs :
        jobs[id].max_retries >= 1 =>
            /\ jobs[id].attempts <= jobs[id].max_retries
            /\ jobs[id].state = "failed" =>
                  jobs[id].attempts >= 1 /\ jobs[id].attempts < jobs[id].max_retries
            /\ jobs[id].state = "dead" =>
                  jobs[id].attempts = jobs[id].max_retries /\ jobs[id].next_retry_at = NULL
            /\ jobs[id].state \in {"pending", "processing", "completed"} =>
                  jobs[id].attempts < jobs[id].max_retries

\* A failed execution of a job stored with attempts = k - 1 leaves it with
\* attempts = k: failed when k < m, dead without next_retry_at when k = m.
C6_FailureCounts ==
    \A w \in Workers :
        FailureStep(w) /\ jobs[cur[w].id].max_retries >= 1 =>
            LET id == cur[w].id
                k == jobs[id].attempts + 1
                m == jobs[id].max_retries
            IN  /\ jobs'[id].attempts = k
                /\ jobs'[id].max_retries = m
                /\ k < m => jobs'[id].state = "failed"
                /\ k = m => jobs'[id].state = "dead" /\ jobs'[id].next_retry_at = NULL

\* C6: for a job with max_retries = m >= 1 that starts with attempts = 0,
\* the k-th consecutive failed execution leaves it failed with attempts = k
\* when k < m and dead with attempts = m and no next_retry_at when k = m, so
\* that it is dead after exactly m failed executions.
C6_DeadAfterMaxRetriesFailures == []C6_Counted /\ [][C6_FailureCounts]_vars

\* A job with max_retries = 4 has died, at its fourth failure.
C6_Witness ==
    \E id \in DOMAIN jobs :
        /\ jobs[id].state = "dead"
        /\ jobs[id].max_retries = 4
        /\ jobs[id].attempts = 4

\* The same worker and job under a configuration whose backoff_base an
\* operator sets to HugeBase (cli `config set' takes any integer).
OverflowMaxRetries == {3, 4}
OverflowBases == {DefaultBackoffBase, HugeBase}

NextOverflow ==
    \/ \E id \in RetryJobIds, mr \in OverflowMaxRetries : Enqueue(id, mr, 0, NoRunAt)
    \/ \E b \in OverflowBases : SetBackoffBase(b)
    \/ Startup(RetryWorker)
    \/ LoopTop(RetryWorker)
    \/ ReadRetryable(RetryWorker)
    \/ PromoteOne(RetryWorker)
    \/ ClaimNext(RetryWorker)
    \/ \E ok \in BOOLEAN : ExecuteJob(RetryWorker, ok)
    \/ \E d \in {1, MinStaleSeconds} : Tick(d)

SpecOverflow == Init /\ [][NextOverflow]_vars

\* C21: every execution that does not succeed goes through the failure
\* handler exactly once: the stored job has the attempts of the executed
\* job plus 1, an error_message, and state failed or dead, and execute_job
\* returns False.
C21_FailureHandledOnce ==
    [][\A w \in Workers :
          ExecuteJob(w, FALSE) =>
              LET id == cur[w].id
              IN  /\ jobs'[id].attempts = cur[w].attempts + 1
                  /\ jobs'[id].error_message # NoError
                  /\ jobs'[id].state \in {"failed", "dead"}
                  /\ ExecuteReturns(cur[w], FALSE, config) = ReturnsBool(FALSE)]_vars

\* The same worker and job under the integers that `config set
\* backoff-base' takes besides the bases above: zero and a negative one.
NegativeBase == -1000
AcceptedBases == {NegativeBase, 0, 1, DefaultBackoffBase}
BackoffMaxRetries == {2, 3}

NextBackoff ==
    \/ \E id \in RetryJobIds, mr \in BackoffMaxRetries : Enqueue(id, mr, 0, NoRunAt)
    \/ \E b \in AcceptedBases : SetBackoffBase(b)
    \/ Startup(RetryWorker)
    \/ LoopTop(RetryWorker)
    \/ ReadRetryable(RetryWorker)
    \/ PromoteOne(RetryWorker)
    \/ ClaimNext(RetryWorker)
    \/ \E ok \in BOOLEAN : ExecuteJob(RetryWorker, ok)
    \/ \E d \in {1, MinStaleSeconds} : Tick(d)

SpecBackoff == Init /\ [][NextBackoff]_vars

\* C26: whenever a failure moves a job to failed, its next_retry_at is
\* strictly later than the time of that step, under every backoff_base the
\* configuration accepts and every attempts.
C26_RetryIsInTheFuture ==
    [][\A w \in Workers :
          FailureStep(w) /\ jobs'[cur[w].id].state = "failed" =>
              /\ jobs'[cur[w].id].next_retry_at # NULL
              /\ jobs'[cur[w].id].next_retry_at > now]_vars

C7_BackoffIsBaseToTheAttempts ==
    [][\A w \in Workers :
          FailureStep(w) /\ jobs'[cur[w].id].state = "failed" =>
              jobs'[cur[w].id].next_retry_at - now =
                  Pow(config.backoff_base, jobs'[cur[w].id].attempts)]_vars

\* A second failure under backoff_base = 3 has scheduled a retry 9 s later.
C7_Witness ==
    \E id \in DOMAIN jobs :
        /\ jobs[id].state = "failed"
        /\ jobs[id].attempts = 2
        /\ config.backoff_base = 3
        /\ jobs[id].next_retry_at = jobs[id].updated_at + 9

(***************************************************************************)
(* The retry budget of a job: jobs enqueued with and without max_retries   *)
(* while an operator changes the configured max_retries.                   *)
(***************************************************************************)
BudgetWorker == "w1"
BudgetJobIds == {"j1"}
BudgetMaxRetries == {NULL, 2}
ConfigMaxRetries == {DefaultMaxRetries, 1}

NextBudget ==
    \/ \E id \in BudgetJobIds, mr \in BudgetMaxRetries : Enqueue(id, mr, 0, NoRunAt)
    \/ \E m \in ConfigMaxRetries : SetMaxRetries(m)
    \/ \E id \in BudgetJobIds : RequeueFromDLQ(id)
    \/ Startup(BudgetWorker)
    \/ LoopTop(BudgetWorker)
    \/ ReadRetryable(BudgetWorker)
    \/ PromoteOne(BudgetWorker)
    \/ ClaimNext(BudgetWorker)
    \/ \E ok \in BOOLEAN : ExecuteJob(BudgetWorker, ok)
    \/ \E d \in {1, MinStaleSeconds} : Tick(d)

SpecBudget == Init /\ [][NextBudget]_vars

\* C23: an Enqueue without max_retries stores the job with the max_retries
\* of the config at that moment, an Enqueue with max_retries stores that
\* value, and no later step (a config change included) changes the
\* max_retries of a stored job.
C23_MaxRetriesFixedAtEnqueue ==
    [][/\ \A id \in BudgetJobIds, mr \in BudgetMaxRetries :
              Enqueue(id, mr, 0, NoRunAt) =>
                  jobs'[id].max_retries =
                      IF mr = NULL THEN config.max_retries ELSE mr
       /\ \A id \in DOMAIN jobs :
              id \in DOMAIN jobs' /\ jobs'[id].max_retries = jobs[id].max_retries]_vars

\* A job enqueued without max_retries under the default config has failed
\* twice and still has a retry, after max_retries was set to 1.
C23_Witness ==
    /\ config.max_retries = 1
    /\ \E id \in DOMAIN jobs :
          /\ jobs[id].max_retries = DefaultMaxRetries
          /\ jobs[id].attempts = 2
          /\ jobs[id].state = "failed"

(***************************************************************************)
(* Claim order: one worker claiming among jobs of different priority,      *)
(* creation time and run_at.                                               *)
(***************************************************************************)
ClaimWorker == "w1"
ClaimPriorities == {0, 1}
ClaimRunAts == {NoRunAt} \cup [wall : {1}, off : {0, -300}]

NextClaim ==
    \/ \E id \in JobIds, prio \in ClaimPriorities, ra \in ClaimRunAts :
          Enqueue(id, 1, prio, ra)
    \/ Startup(ClaimWorker)
    \/ LoopTop(ClaimWorker)
    \/ ReadRetryable(ClaimWorker)
    \/ ClaimNext(ClaimWorker)
    \/ \E ok \in BOOLEAN : ExecuteJob(ClaimWorker, ok)
    \/ Tick(1)

SpecClaim == Init /\ [][NextClaim]_vars

\* The instant a run_at denotes: its wall-clock reading less its UTC offset.
Instant(ra) == ra.wall - ra.off

\* The jobs that are pending and whose run_at is null or not after t.
Due(js, t) ==
    {id \in DOMAIN js :
        /\ js[id].state = "pending"
        /\ (js[id].run_at = NoRunAt \/ Instant(js[id].run_at) <= t)}

\* C5: ClaimNext returns, among the jobs that are pending and whose run_at
\* is null or <= now, one of highest priority and, among those, of earliest
\* created_at; it returns nothing exactly when no such job exists.
C5_ClaimReturnsBestDueJob ==
    [][\A w \in Workers :
          pc[w] = "claim" /\ pc'[w] # "claim" =>
              IF pc'[w] = "exec"
              THEN /\ cur'[w].id \in Due(jobs, now)
                   /\ \A k \in Due(jobs, now) :
                         \/ jobs[cur'[w].id].priority > jobs[k].priority
                         \/ /\ jobs[cur'[w].id].priority = jobs[k].priority
                            /\ jobs[cur'[w].id].created_at <= jobs[k].created_at
              ELSE Due(jobs, now) = {}]_vars

(***************************************************************************)
(* Client calls: enqueue and requeue in both of their outcomes, against a  *)
(* store that one worker is draining.                                      *)
(***************************************************************************)
ClientWorker == "w1"
ClientMaxRetries == {2}
ClientRunAts == {NoRunAt, [wall |-> 1, off |-> 0]}

NextClient ==
    \/ \E id \in JobIds, mr \in ClientMaxRetries, ra \in ClientRunAts :
          Enqueue(id, mr, 0, ra)
    \/ \E id \in JobIds : EnqueueRejected(id)
    \/ \E id \in JobIds : RequeueFromDLQ(id)
    \/ \E id \in JobIds : RequeueRefused(id)
    \/ Startup(ClientWorker)
    \/ LoopTop(ClientWorker)
    \/ ReadRetryable(ClientWorker)
    \/ PromoteOne(ClientWorker)
    \/ ClaimNext(ClientWorker)
    \/ \E ok \in BOOLEAN : ExecuteJob(ClientWorker, ok)
    \/ Tick(1)

SpecClient == Init /\ [][NextClient]_vars

\* A call of enqueue_job for id, in either outcome.
EnqueueCall(id) ==
    \/ \E mr \in ClientMaxRetries, ra \in ClientRunAts : Enqueue(id, mr, 0, ra)
    \/ EnqueueRejected(id)

\* A call of retry_dlq_job for id, in either outcome.
RequeueCall(id) == RequeueFromDLQ(id) \/ RequeueRefused(id)

\* C11: an Enqueue of an id that is stored, in whatever state, raises an
\* error and changes no stored job.
C11_EnqueueExistingRejected ==
    [][\A id \in JobIds :
          EnqueueCall(id) /\ id \in DOMAIN jobs =>
              ret' = Raises("ValueError") /\ jobs' = jobs]_vars

\* An enqueue has been rejected while the only stored job was dead after
\* two runs.
C11_Witness ==
    /\ ret = Raises("ValueError")
    /\ DOMAIN jobs = {"j1"}
    /\ jobs["j1"].state = "dead"
    /\ jobs["j1"].attempts = 2

\* C12: RequeueFromDLQ of a dead job returns True and leaves it pending
\* with attempts = 0, no error_message and no next_retry_at: claimable at
\* once, and with every other job as it was.
C12_RequeueResetsDeadJob ==
    [][\A id \in JobIds :
          RequeueCall(id) /\ id \in DOMAIN jobs /\ jobs[id].state = "dead" =>
              /\ ret' = ReturnsBool(TRUE)
              /\ jobs'[id].state = "pending"
              /\ jobs'[id].attempts = 0
              /\ jobs'[id].error_message = NoError
              /\ jobs'[id].next_retry_at = NULL
              /\ id \in Eligible(jobs', now')
              /\ \A k \in DOMAIN jobs \ {id} : jobs'[k] = jobs[k]]_vars

\* A job that died at its second failure has been requeued.
C12_Witness ==
    /\ ret = ReturnsBool(TRUE)
    /\ \E id \in DOMAIN jobs :
          /\ jobs[id].state = "pending"
          /\ jobs[id].attempts = 0
          /\ jobs[id].max_retries = 2
          /\ runs[id] = "again"

\* C13: RequeueFromDLQ of an id that is not stored, or of a job that is
\* pending, processing, failed or completed, returns False and changes no
\* stored job.
C13_RequeueRefusedUnlessDead ==
    [][\A id \in JobIds :
          RequeueCall(id) /\ (id \notin DOMAIN jobs \/ jobs[id].state # "dead") =>
              ret' = ReturnsBool(FALSE) /\ jobs' = jobs]_vars

\* A requeue has been refused while the only stored job was failed.
C13_Witness ==
    /\ ret = ReturnsBool(FALSE)
    /\ DOMAIN jobs = {"j1"}
    /\ jobs["j1"].state = "failed"

(***************************************************************************)
(* The reaper, called by a client on a store that one worker is draining,  *)
(* on hosts in a zone without daylight saving and in zones where daylight  *)
(* saving ends or begins.                                                  *)
(***************************************************************************)
ReaperWorker == "w1"
ReaperMaxRetries == {2}
ReaperAges == {MinStaleSeconds}
HostZones == {UtcZone, DstEndsZone, DstBeginsZone}

InitReaper ==
    /\ now = 0
    /\ jobs = <<>>
    /\ config = DefaultConfig
    /\ pc = [w \in Workers |-> "start"]
    /\ cur = [w \in Workers |-> NoJob]
    /\ retryable = [w \in Workers |-> <<>>]
    /\ last_reap = [w \in Workers |-> 0]
    /\ wconfig = [w \in Workers |-> DefaultConfig]
    /\ reaped = FALSE
    /\ ret = ReturnsNone
    /\ tz \in HostZones
    /\ stop = FALSE
    /\ registry = [w \in Workers |-> NoWorkerRow]
    /\ runs = [id \in JobIds |-> "never"]
    /\ mgr = Supervising(Workers)
    /\ inflight = [c \in Clients |-> NoCall]

NextReaper ==
    \/ \E id \in JobIds, mr \in ReaperMaxRetries : Enqueue(id, mr, 0, NoRunAt)
    \/ \E a \in ReaperAges : ResetStaleProcessing(a)
    \/ Startup(ReaperWorker)
    \/ LoopTop(ReaperWorker)
    \/ ReadRetryable(ReaperWorker)
    \/ PromoteOne(ReaperWorker)
    \/ ClaimNext(ReaperWorker)
    \/ \E ok \in BOOLEAN : ExecuteJob(ReaperWorker, ok)
    \/ \E d \in {1, MinStaleSeconds} : Tick(d)

SpecReaper == InitReaper /\ [][NextReaper]_vars

\* The jobs that are processing in js at time t with an updated_at more
\* than age seconds back, and those with an updated_at less than that back.
OlderThan(js, t, age) ==
    {id \in DOMAIN js : js[id].state = "processing" /\ t - js[id].updated_at > age}

NewerThan(js, t, age) ==
    {id \in DOMAIN js : js[id].state = "processing" /\ t - js[id].updated_at < age}

\* C14: ResetStaleProcessing(maxAge) moves every job that is processing
\* with updated_at older than maxAge to pending and returns the number of
\* jobs it moved; a second invocation right after it would reset nothing.
C14_ReaperResetsEveryStaleJob ==
    [][\A a \in ReaperAges :
          ResetStaleProcessing(a) =>
              /\ \A id \in OlderThan(jobs, now, a) : jobs'[id].state = "pending"
              /\ ret' = ReturnsInt(Cardinality(
                          {id \in DOMAIN jobs :
                              jobs[id].state = "processing"
                                /\ jobs'[id].state = "pending"}))
              /\ StaleIds(jobs', now', a) = {}
              /\ ResetStale(jobs', now', a) = jobs']_vars

\* C15: ResetStaleProcessing(maxAge) leaves unchanged every job that is
\* not processing and every processing job whose updated_at is newer than
\* the threshold; a row it resets differs from what it was in state,
\* updated_at and, when error_message was null, error_message, which is
\* then the recovery text.
C15_ReaperFrame ==
    [][\A a \in ReaperAges :
          ResetStaleProcessing(a) =>
              /\ DOMAIN jobs' = DOMAIN jobs
              /\ \A id \in DOMAIN jobs :
                    \/ jobs'[id] = jobs[id]
                    \/ /\ jobs[id].state = "processing"
                       /\ id \notin NewerThan(jobs, now, a)
                       /\ jobs'[id] =
                            [jobs[id] EXCEPT
                                !.state = "pending",
                                !.updated_at = now,
                                !.error_message =
                                    IF @ = NoError THEN RecoveredMsg ELSE @]]_vars

(***************************************************************************)
(* Progress.  Worker threads are scheduled fairly, a sleep returns, a      *)
(* command ends (subprocess.run returns or times out), and the clock runs: *)
(* weak fairness of each worker's next step and of the clock.  Jobs are    *)
(* enqueued, each id once, and none is requeued.                           *)
(***************************************************************************)
WorkerStep(w) ==
    \/ Startup(w)
    \/ LoopTop(w)
    \/ ReadRetryable(w)
    \/ PromoteOne(w)
    \/ ClaimNext(w)
    \/ \E ok \in BOOLEAN : ExecuteJob(w, ok)

LiveJobIds == {"j1"}
LiveMaxRetries == {4}
LiveBases == {DefaultBackoffBase, HugeBase}
LiveRunAts == {NoRunAt, [wall |-> 1, off |-> 0]}

NextLive ==
    \/ \E id \in LiveJobIds, mr \in LiveMaxRetries, ra \in LiveRunAts :
          Enqueue(id, mr, 0, ra)
    \/ \E b \in LiveBases : SetBackoffBase(b)
    \/ \E w \in Workers : WorkerStep(w)
    \/ Tick(1)

SpecLive ==
    /\ Init
    /\ [][NextLive]_vars
    /\ \A w \in Workers : WF_vars(WorkerStep(w))
    /\ WF_vars(Tick(1))

\* The clock of the model has run out while job id waits for a time that it
\* has not reached: its run_at, or the next_retry_at of its last failure.
ClockRanOutOn(id) ==
    /\ TicksTaken(now) >= MaxTicks
    /\ \/ jobs[id].state = "pending" /\ jobs[id].run_at # NoRunAt
                                      /\ jobs[id].run_at.wall > now
       \/ jobs[id].state = "failed" /\ jobs[id].next_retry_at > now

\* C17: with workers that keep running their loops, a clock that advances
\* and commands that end, every stored job eventually is completed or dead
\* (within the clock of the model: unless the clock runs out while the job
\* waits for its run_at or for its next_retry_at).
C17_EveryJobEndsCompletedOrDead ==
    \A id \in LiveJobIds :
        [](id \in DOMAIN jobs =>
              <>(id \in DOMAIN jobs
                   /\ (jobs[id].state \in {"completed", "dead"}
                         \/ ClockRanOutOn(id))))

(***************************************************************************)
(* Crash recovery: one worker may be killed while it runs a command, the   *)
(* other keeps running.  The clock advances by the reaper's threshold.     *)
(***************************************************************************)
CrashWorker == "w2"
LiveWorker == "w1"
CrashJobIds == {"j1"}
CrashMaxRetries == {2}

NextCrash ==
    \/ \E id \in CrashJobIds, mr \in CrashMaxRetries : Enqueue(id, mr, 0, NoRunAt)
    \/ \E w \in Workers : WorkerStep(w)
    \/ Crash(CrashWorker)
    \/ Tick(MinStaleSeconds)

SpecCrash ==
    /\ Init
    /\ [][NextCrash]_vars
    /\ WF_vars(WorkerStep(LiveWorker))
    /\ WF_vars(Tick(MinStaleSeconds))

\* Job id is processing as claimed by worker w, and w has died.
Orphaned(w, id) ==
    /\ pc[w] = "crashed"
    /\ cur[w] # NoJob
    /\ cur[w].id = id
    /\ jobs[id].state = "processing"
    /\ jobs[id].updated_at = cur[w].updated_at

\* The clock of the model has run out before the reaper of worker w comes
\* to reset job id: the job is younger than the threshold, or it was so at
\* w's last reaper call and w's next one is not due.
ClockRanOutBeforeReap(w, id) ==
    /\ TicksTaken(now) >= MaxTicks
    /\ id \in DOMAIN jobs
    /\ jobs[id].state = "processing"
    /\ \/ now - jobs[id].updated_at < StaleThreshold(config)
       \/ /\ pc[w] # "start"
          /\ last_reap[w] - jobs[id].updated_at < StaleThreshold(config)
          /\ now - last_reap[w] < ReapPeriod

\* C18: a job left processing by a worker that died is eventually reset
\* and executed again by a worker that keeps running, once the clock has
\* passed the reaper threshold: it does not stay processing (within the
\* clock of the model: unless the clock runs out before the reaper is due).
C18_OrphanedJobIsRecovered ==
    \A id \in CrashJobIds :
        [](Orphaned(CrashWorker, id) =>
              <>(\/ id \in DOMAIN jobs
                      /\ jobs[id].state \in {"completed", "failed", "dead"}
                 \/ ClockRanOutBeforeReap(LiveWorker, id)))

\* A job orphaned by the dead worker has been reset by the reaper and run
\* to its end by the live one.
C18_Witness ==
    /\ pc[CrashWorker] = "crashed"
    /\ cur[CrashWorker] # NoJob
    /\ reaped
    /\ runs[cur[CrashWorker].id] = "once"
    /\ jobs[cur[CrashWorker].id].state = "completed"
    /\ jobs[cur[CrashWorker].id].error_message = NoError

(***************************************************************************)
(* The pool when every command succeeds, no worker dies and no command     *)
(* runs as long as the reaper's threshold, on hosts of every zone.         *)
(***************************************************************************)
HappyMaxRetries == {DefaultMaxRetries}

\* The clock advances by d while every command that is running stays
\* younger than the threshold.
ShortTick(d) ==
    /\ \A w \in Workers :
          pc[w] = "exec" => now + d - cur[w].updated_at < StaleThreshold(config)
    /\ Tick(d)

NextHappy ==
    \/ \E id \in JobIds, mr \in HappyMaxRetries : Enqueue(id, mr, 0, NoRunAt)
    \/ \E w \in Workers : Startup(w)
    \/ \E w \in Workers : LoopTop(w)
    \/ \E w \in Workers : ReadRetryable(w)
    \/ \E w \in Workers : ClaimNext(w)
    \/ \E w \in Workers : ExecuteJob(w, TRUE)
    \/ \E d \in {1, MinStaleSeconds} : ShortTick(d)

SpecHappy == InitReaper /\ [][NextHappy]_vars

\* C19: with any number of workers, when every command succeeds, no worker
\* dies and no execution lasts as long as the reaper threshold, each job is
\* executed at most once, by one worker at a time, has attempts = 0, and is
\* completed from the moment it has been executed.
C19_ExecutedExactlyOnce ==
    \A id \in DOMAIN jobs :
        /\ jobs[id].attempts = 0
        /\ runs[id] # "again"
        /\ runs[id] = "once" <=> jobs[id].state = "completed"
        /\ \A w1, w2 \in Workers : Holds(w1, id) /\ Holds(w2, id) => w1 = w2

(***************************************************************************)
(* Shutdown: the stop flag is set at any moment while the pool drains the  *)
(* store.                                                                  *)
(***************************************************************************)
StopJobIds == {"j1"}
StopMaxRetries == {4}
StopBases == {DefaultBackoffBase, HugeBase}

WorkerStepOrExit(w) == WorkerStep(w) \/ Exit(w)

NextStop ==
    \/ \E id \in StopJobIds, mr \in StopMaxRetries : Enqueue(id, mr, 0, NoRunAt)
    \/ \E b \in StopBases : SetBackoffBase(b)
    \/ \E w \in Workers : WorkerStepOrExit(w)
    \/ SetStop
    \/ Tick(1)

SpecStop ==
    /\ Init
    /\ [][NextStop]_vars
    /\ \A w \in Workers : WF_vars(WorkerStepOrExit(w))

\* A worker that has exited holds no job and is marked stopped; when all
\* workers have exited no job is processing.
C20_Exited ==
    /\ \A w \in Workers :
          pc[w] = "done" => cur[w] = NoJob /\ registry[w].stopped_at # NULL
    /\ (\A w \in Workers : pc[w] = "done") =>
          \A id \in DOMAIN jobs : jobs[id].state # "processing"

\* Once the stop flag is set, a worker leaves the execution of a job with
\* the outcome recorded in the store; a worker that has exited claims
\* nothing and stays stopped.
C20_Finishes ==
    \A w \in Workers :
        /\ stop /\ pc[w] = "exec" /\ pc'[w] # "exec" =>
              /\ pc'[w] = "top"
              /\ jobs'[cur[w].id].state \in {"completed", "failed", "dead"}
        /\ pc[w] = "done" =>
              pc'[w] = "done" /\ cur'[w] = NoJob /\ registry'[w] = registry[w]

\* C20: after the stop flag is set, a worker that holds a job finishes its
\* execution and records the outcome before it exits, claims nothing after
\* it has seen the flag, and eventually marks itself stopped; when all
\* workers have exited no job is left processing.
C20_GracefulShutdown ==
    /\ []C20_Exited
    /\ [][C20_Finishes]_vars
    /\ []((stop /\ \E w \in Workers : pc[w] = "exec") =>
              <>(\A w \in Workers : pc[w] = "done"))

(***************************************************************************)
(* Status queries: counts and listings read by a client while one worker   *)
(* drains two jobs.  Neither query reads a time, and the clock stands.     *)
(***************************************************************************)
StatusWorker == "w1"
StatusMaxRetries == {1, 2}

NextStatus ==
    \/ \E id \in JobIds, mr \in StatusMaxRetries : Enqueue(id, mr, 0, NoRunAt)
    \/ JobCounts
    \/ \E s \in States : ListByState(s)
    \/ Startup(StatusWorker)
    \/ LoopTop(StatusWorker)
    \/ ReadRetryable(StatusWorker)
    \/ ClaimNext(StatusWorker)
    \/ \E ok \in BOOLEAN : ExecuteJob(StatusWorker, ok)

SpecStatus == Init /\ [][NextStatus]_vars

RECURSIVE SumOver(_, _)
SumOver(f, S) ==
    IF S = {} THEN 0
    ELSE LET x == CHOOSE y \in S : TRUE
         IN  f[x] + SumOver(f, S \ {x})

\* C25: the counts a client reads give, for every state, the length of
\* every list ListByState may return for that state on the same store
\* contents; a state without jobs has the count 0, and the counts sum to
\* the number of stored jobs.
C25_CountsMatchLists ==
    [][JobCounts =>
          /\ ret'.kind = "counts"
          /\ DOMAIN ret'.val = States
          /\ \A s \in States :
                /\ \A q \in get_jobs_by_state(jobs, s) : ret'.val[s] = Len(q)
                /\ (\A id \in DOMAIN jobs : jobs[id].state # s) => ret'.val[s] = 0
          /\ SumOver(ret'.val, States) = Cardinality(DOMAIN jobs)]_vars

\* Counts have been read while one job was dead, the other was being
\* executed and none was pending, failed or completed.
C25_Witness ==
    /\ ret.kind = "counts"
    /\ ret.val["dead"] = 1
    /\ ret.val["processing"] = 1
    /\ ret.val["pending"] = 0
    /\ DOMAIN jobs = JobIds
    /\ \E id \in JobIds : jobs[id].state = "dead"
    /\ \E id \in JobIds : jobs[id].state = "processing"

(***************************************************************************)
(* The registry: workers that register, heartbeat and stop while a client  *)
(* counts the active ones, on hosts of every zone.                         *)
(***************************************************************************)
RegistryJobIds == {"j1"}
RegistryMaxRetries == {1}
ActiveStale == 10
ActiveStales == {2, ActiveStale}

NextRegistry ==
    \/ \E id \in RegistryJobIds, mr \in RegistryMaxRetries :
          Enqueue(id, mr, 0, NoRunAt)
    \/ \E a \in ActiveStales : ActiveWorkers(a)
    \/ \E w \in Workers : Startup(w)
    \/ \E w \in Workers : LoopTop(w)
    \/ \E w \in Workers : ReadRetryable(w)
    \/ \E w \in Workers : ClaimNext(w)
    \/ \E w \in Workers : ExecuteJob(w, TRUE)
    \/ \E w \in Workers : Exit(w)
    \/ SetStop
    \/ Tick(1)

SpecRegistry == InitReaper /\ [][NextRegistry]_vars

\* The registered workers that are not stopped and whose last heartbeat is
\* at most age seconds back at time t.
ActiveSet(reg, t, age) ==
    {w \in DOMAIN reg :
        /\ reg[w].registered
        /\ reg[w].stopped_at = NULL
        /\ t - reg[w].last_heartbeat <= age}

\* C28: the count of active workers is the number of registered workers
\* with no stopped_at whose last_heartbeat is at most the given number of
\* seconds (10 for the status display) old; the row of a worker that has
\* marked itself stopped is not modified afterwards, so that the worker is
\* never counted again.
C28_ActiveWorkersCounted ==
    [][/\ \A a \in ActiveStales :
             ActiveWorkers(a) =>
                 ret' = ReturnsInt(Cardinality(ActiveSet(registry, now, a)))
       /\ \A w \in Workers :
             registry[w].stopped_at # NULL =>
                 /\ registry'[w] = registry[w]
                 /\ \A a \in ActiveStales : w \notin ActiveSet(registry', now', a)]_vars

(***************************************************************************)
(* The average-duration metric, read on tables of up to 22 rows.  A row    *)
(* carries the columns get_metrics reads.  Row i has completed_at = i and  *)
(* a duration_ms that grows with i by a step; one row may be in another    *)
(* state than completed, and one may have no duration_ms.                  *)
(***************************************************************************)
MetricsSizes == {0, 1, 2, 3, 20, 21, 22}
DurationSteps == {1, 7}
OtherStates == {"pending", "processing", "failed", "dead"}

MetricsRow(i, st, d) ==
    [id |-> i, state |-> st, completed_at |-> i, duration_ms |-> d]

MetricsTable(n, step, other, st, unmeasured) ==
    [i \in 1..n |->
        MetricsRow(i, IF i = other THEN st ELSE "completed",
                      IF i = unmeasured THEN NULL ELSE i * step)]

InitMetrics ==
    /\ now = 0
    /\ \E n \in MetricsSizes, step \in DurationSteps, st \in OtherStates :
          \E other \in 0..n, unmeasured \in 0..n :
              jobs = MetricsTable(n, step, other, st, unmeasured)
    /\ config = DefaultConfig
    /\ pc = [w \in Workers |-> "none"]
    /\ cur = [w \in Workers |-> NoJob]
    /\ retryable = [w \in Workers |-> <<>>]
    /\ last_reap = [w \in Workers |-> 0]
    /\ wconfig = [w \in Workers |-> DefaultConfig]
    /\ reaped = FALSE
    /\ ret = ReturnsNone
    /\ tz = UtcZone
    /\ stop = FALSE
    /\ registry = [w \in Workers |-> NoWorkerRow]
    /\ runs = [id \in JobIds |-> "never"]
    /\ mgr = NotStarted
    /\ inflight = [c \in Clients |-> NoCall]

NextMetrics == Metrics

SpecMetrics == InitMetrics /\ [][NextMetrics]_vars

\* The rows that count for the metric: completed, with a duration_ms, and
\* with fewer than 20 such rows completed after them.
LastCompleted(js) ==
    {x \in DOMAIN js :
        /\ js[x].state = "completed"
        /\ js[x].duration_ms # NULL
        /\ Cardinality({y \in DOMAIN js :
                            /\ js[y].state = "completed"
                            /\ js[y].duration_ms # NULL
                            /\ js[y].completed_at > js[x].completed_at}) < 20}

\* C29: the average-duration metric is the mean of duration_ms, truncated
\* to an integer, over the at most 20 most recently completed jobs that
\* have a duration_ms, and null when there is none; jobs in other states
\* do not contribute.
C29_AverageOfLastTwenty ==
    [][Metrics =>
          LET S == LastCompleted(jobs)
          IN  /\ Cardinality(S) <= 20
              /\ S = {} => ret'.val = NULL
              /\ S # {} =>
                    /\ ret'.val * Cardinality(S) <= SumDuration(jobs, S)
                    /\ SumDuration(jobs, S) < (ret'.val + 1) * Cardinality(S)]_vars

\* The metric has been read on a table of 22 rows of which 21 are
\* completed with a duration_ms, and is the truncated mean of the last 20.
C29_Witness ==
    /\ ret.kind = "metrics"
    /\ Cardinality(DOMAIN jobs) = 22
    /\ Cardinality(Measured(jobs)) = 21
    /\ jobs[22].state = "failed"
    /\ jobs[1].duration_ms = 7
    /\ ret.val = 80

(***************************************************************************)
(* Concurrent claims: two workers polling a store of two jobs.  A job goes *)
(* back to pending by a requeue from the dead letter queue; the clock      *)
(* stands, so that no claim is ever stale.                                 *)
(***************************************************************************)
AtomicMaxRetries == {1}

NextAtomic ==
    \/ \E id \in JobIds, mr \in AtomicMaxRetries : Enqueue(id, mr, 0, NoRunAt)
    \/ \E id \in JobIds : RequeueFromDLQ(id)
    \/ \E w \in Workers : Startup(w)
    \/ \E w \in Workers : LoopTop(w)
    \/ \E w \in Workers : ReadRetryable(w)
    \/ \E w \in Workers : ClaimNext(w)
    \/ \E w \in Workers, ok \in BOOLEAN : ExecuteJob(w, ok)

SpecAtomic == Init /\ [][NextAtomic]_vars

\* The call of ClaimNext by worker w returns in this step, with job id.
ClaimReturns(w, id) ==
    /\ pc[w] = "claim"
    /\ pc'[w] = "exec"
    /\ cur'[w].id = id

\* A call that returns job id found it pending and leaves it processing,
\* and no other call returns in the same step.
C30_ClaimStep ==
    \A w \in Workers, id \in JobIds :
        ClaimReturns(w, id) =>
            /\ id \in DOMAIN jobs
            /\ jobs[id].state = "pending"
            /\ jobs'[id].state = "processing"
            /\ \A k \in DOMAIN jobs \ {id} : jobs'[k] = jobs[k]
            /\ \A v \in Workers \ {w} : pc'[v] = pc[v] /\ cur'[v] = cur[v]

\* C30: ClaimNext is atomic.  Of the workers that poll a store where job j
\* is pending at most one gets j, the others get another job or nothing:
\* no two workers hold the same job, a job that a call returns is pending
\* before the call and processing after it, and so is returned again only
\* after it has gone back to pending.
C30_ClaimIsAtomic ==
    /\ [](\A w1, w2 \in Workers, id \in JobIds :
             Holds(w1, id) /\ Holds(w2, id) => w1 = w2)
    /\ [][C30_ClaimStep]_vars

\* Both workers hold a job, each another one, and one of the two jobs had
\* been claimed and run before and has gone back to pending since.
C30_Witness ==
    /\ \A w \in Workers : pc[w] = "exec"
    /\ \A w1, w2 \in Workers : cur[w1].id = cur[w2].id => w1 = w2
    /\ \E w \in Workers : runs[cur[w].id] = "again"

(***************************************************************************)
(* Store errors: one worker draining a store whose calls may raise, until  *)
(* the stop flag is set.                                                   *)
(***************************************************************************)
ErrorWorker == "w1"
ErrorJobIds == {"j1"}
ErrorMaxRetries == {2}
StartupCalls == {"register", "config", "reaper"}
LoopTopCalls == {"heartbeat", "reaper"}

\* A step of worker w in which a store call raises.
StoreError(w) ==
    \/ \E call \in StartupCalls : StartupError(w, call)
    \/ \E call \in LoopTopCalls : LoopTopError(w, call)
    \/ LoopBodyError(w)
    \/ \E ok \in BOOLEAN, again \in BOOLEAN : ExecuteJobError(w, ok, again)
    \/ ExitError(w)

NextErrors ==
    \/ \E id \in ErrorJobIds, mr \in ErrorMaxRetries : Enqueue(id, mr, 0, NoRunAt)
    \/ WorkerStepOrExit(ErrorWorker)
    \/ StoreError(ErrorWorker)
    \/ SetStop
    \/ \E d \in {1, MinStaleSeconds} : Tick(d)

SpecErrors == Init /\ [][NextErrors]_vars

\* The positions of Worker.run inside its loop.
LoopPositions == {"top", "retries", "promote", "claim", "exec"}

\* C24: no store error kills a worker.  A step in which a store call of
\* the worker raises (registration, the config read at startup, heartbeat,
\* reaper, promote, claim, outcome write) leaves the worker in its loop as
\* long as the stop flag is not set, and no worker ever is dead of an
\* exception.
C24_StoreErrorsKeepWorkerLooping ==
    /\ [](\A w \in Workers : pc[w] # "died")
    /\ [][\A w \in Workers :
             StoreError(w) /\ ~stop => pc'[w] \in LoopPositions]_vars

(***************************************************************************)
(* The supervisor: start and stop called in any order and at any moment,   *)
(* on a manager that has not been started.  Neither call reads a time, and *)
(* the clock stands.                                                       *)
(***************************************************************************)
SupervisorJobIds == {"j1"}
SupervisorMaxRetries == {1}
WorkerSets == SUBSET Workers \ {{}}

InitSupervisor ==
    /\ now = 0
    /\ jobs = <<>>
    /\ config = DefaultConfig
    /\ pc = [w \in Workers |-> "none"]
    /\ cur = [w \in Workers |-> NoJob]
    /\ retryable = [w \in Workers |-> <<>>]
    /\ last_reap = [w \in Workers |-> 0]
    /\ wconfig = [w \in Workers |-> DefaultConfig]
    /\ reaped = FALSE
    /\ ret = ReturnsNone
    /\ tz = UtcZone
    /\ stop = FALSE
    /\ registry = [w \in Workers |-> NoWorkerRow]
    /\ runs = [id \in JobIds |-> "never"]
    /\ mgr = NotStarted
    /\ inflight = [c \in Clients |-> NoCall]

NextSupervisor ==
    \/ \E id \in SupervisorJobIds, mr \in SupervisorMaxRetries :
          Enqueue(id, mr, 0, NoRunAt)
    \/ \E W \in WorkerSets : StartWorkers(W)
    \/ SetStop
    \/ StopRefused
    \/ StopReturns
    \/ \E w \in Workers : Startup(w)
    \/ \E w \in Workers : LoopTop(w)
    \/ \E w \in Workers : ReadRetryable(w)
    \/ \E w \in Workers : ClaimNext(w)
    \/ \E w \in Workers, ok \in BOOLEAN : ExecuteJob(w, ok)
    \/ \E w \in Workers : Exit(w)

SpecSupervisor == InitSupervisor /\ [][NextSupervisor]_vars

\* A call of start, and a call of stop, in either outcome.
StartCall == \E W \in WorkerSets : StartWorkers(W)
StopCall == SetStop \/ StopRefused

\* The step leaves the store, the workers, the stop flag and the manager's
\* running flag and threads as they are.
ChangesNothing ==
    /\ UNCHANGED <<now, jobs, config, pc, cur, retryable, last_reap, wconfig,
                 reaped, ret, tz, stop, registry, runs, inflight>>
    /\ mgr'.running = mgr.running
    /\ mgr'.threads = mgr.threads
    /\ mgr'.stopping = mgr.stopping

\* C27: a start called while the manager is running starts no worker and
\* changes nothing; a stop called while it is not running sets no flag,
\* joins nothing and changes nothing.
C27_SupervisorIdempotent ==
    [][/\ StartCall /\ mgr.running => ChangesNothing
       /\ StopCall /\ ~mgr.running => ChangesNothing]_vars

\* Both calls have been no-ops: a start while a worker was running, and a
\* stop after the manager had been stopped, which has left the flag clear
\* for the workers started since.
C27_Witness ==
    /\ mgr.start_noop
    /\ mgr.stop_noop
    /\ mgr.running
    /\ ~stop
    /\ \E w \in Workers : pc[w] = "done"
    /\ \E w \in Workers : pc[w] = "exec"

(***************************************************************************)
(* Executions within the timeout: the pool under the default config, on a  *)
(* host without daylight saving, with commands that succeed and end no     *)
(* later than default_timeout_seconds after their claim.                   *)
(***************************************************************************)
TimeoutJobIds == {"j1"}
TimeoutMaxRetries == {DefaultMaxRetries}

\* The clock advances by d while every command that is running stays within
\* the timeout execute_job gives to subprocess.run (line 48).
TickWithinTimeout(d) ==
    /\ \A w \in Workers :
          pc[w] = "exec" =>
              now + d - cur[w].updated_at <= config.default_timeout_seconds
    /\ Tick(d)

NextTimeout ==
    \/ \E id \in TimeoutJobIds, mr \in TimeoutMaxRetries : Enqueue(id, mr, 0, NoRunAt)
    \/ \E w \in Workers : Startup(w)
    \/ \E w \in Workers : LoopTop(w)
    \/ \E w \in Workers : ReadRetryable(w)
    \/ \E w \in Workers : ClaimNext(w)
    \/ \E w \in Workers : ExecuteJob(w, TRUE)
    \/ \E d \in {1, MinStaleSeconds} : TickWithinTimeout(d)

SpecTimeout == Init /\ [][NextTimeout]_vars

\* Worker w is executing job id under the claim that is stored.
ExecutesOwnClaim(w, id) ==
    /\ Holds(w, id)
    /\ id \in DOMAIN jobs
    /\ jobs[id] = cur[w]

\* C32: under the default configuration the reaper, whose threshold is
\* max(1 * 120, 300) = 300 s, never resets a job while the worker that
\* claimed it is executing it, for executions that end within the timeout
\* of 300 s: no step changes the stored row of a job that a worker is
\* executing under its own claim, other than that worker's outcome write.
C32_ReaperSparesLiveExecutions ==
    [][\A w \in Workers, id \in TimeoutJobIds :
          ExecutesOwnClaim(w, id) /\ pc'[w] = "exec" =>
              jobs'[id] = jobs[id]]_vars

(***************************************************************************)
(* Concurrent commands: two clients enqueue, each on a store handle of its *)
(* own, while one worker drains the store.  The two Jobs of one id differ  *)
(* in max_retries.  No command reads a time, and the clock stands.         *)
(***************************************************************************)
RaceWorker == "w1"
RaceJobIds == {"j1"}
RaceMaxRetries == {1, 2}

NextRace ==
    \/ \E c \in Clients, id \in RaceJobIds, mr \in RaceMaxRetries :
          EnqueueLookup(c, id, mr, 0, NoRunAt)
    \/ \E c \in Clients : EnqueueSave(c)
    \/ Startup(RaceWorker)
    \/ LoopTop(RaceWorker)
    \/ ReadRetryable(RaceWorker)
    \/ ClaimNext(RaceWorker)
    \/ \E ok \in BOOLEAN : ExecuteJob(RaceWorker, ok)

SpecRace == Init /\ [][NextRace]_vars

\* C33: Enqueue is insert-or-fail under concurrency.  A call of Enqueue
\* that succeeds inserts: the id it saves has no stored row at the moment
\* of the save, so that of two concurrent calls with the same id at most
\* one succeeds, and a row that is stored, whether another call stored it
\* or a worker is processing it, is never replaced by an Enqueue.
C33_EnqueueInsertsOrFails ==
    [][\A c \in Clients :
          EnqueueSave(c) =>
              /\ inflight[c].job.id \notin DOMAIN jobs
              /\ \A id \in DOMAIN jobs : jobs'[id] = jobs[id]]_vars

(***************************************************************************)
(* Deletion: an operator enqueues and deletes jobs while one worker drains *)
(* the store; an id may be enqueued again with another max_retries.  The   *)
(* clock stands.                                                           *)
(***************************************************************************)
DeleteWorker == "w1"
DeleteMaxRetries == {1, 2}

NextDelete ==
    \/ \E id \in JobIds, mr \in DeleteMaxRetries : Enqueue(id, mr, 0, NoRunAt)
    \/ \E id \in JobIds : Delete(id)
    \/ \E id \in JobIds : DeleteMissing(id)
    \/ Startup(DeleteWorker)
    \/ LoopTop(DeleteWorker)
    \/ ReadRetryable(DeleteWorker)
    \/ ClaimNext(DeleteWorker)
    \/ \E ok \in BOOLEAN : ExecuteJob(DeleteWorker, ok)

SpecDelete == Init /\ [][NextDelete]_vars

\* C35: a job that has been deleted stays deleted until it is enqueued
\* again.  An id of which no row is stored (none ever was, or Delete has
\* removed it) gets a stored row, which Get, the listings and the counts
\* read, by no step other than an Enqueue of that id.
C35_DeletedStaysDeleted ==
    [][\A id \in JobIds :
          id \notin DOMAIN jobs /\ id \in DOMAIN jobs' =>
              \E mr \in DeleteMaxRetries : Enqueue(id, mr, 0, NoRunAt)]_vars

(***************************************************************************)
(* Restart: the supervisor of the section above with worker threads that   *)
(* are scheduled fairly and commands that end.                             *)
(***************************************************************************)
ThreadStep(w) ==
    \/ Startup(w)
    \/ LoopTop(w)
    \/ ReadRetryable(w)
    \/ ClaimNext(w)
    \/ \E ok \in BOOLEAN : ExecuteJob(w, ok)
    \/ Exit(w)

SpecRestart ==
    /\ InitSupervisor
    /\ [][NextSupervisor]_vars
    /\ \A w \in Workers : WF_vars(ThreadStep(w))

\* Worker w has been started and has not exited.
Started(w) == pc[w] \in {"start"} \cup LoopPositions

\* C36: once stop has set the flag, every worker started before it exits
\* its loop and marks itself stopped, also when it was executing a job at
\* the moment the join of stop gave up and start is called again; after
\* the restart the workers that run their loops are those that the last
\* start has created: no other worker begins an iteration.
C36_StoppedWorkersExit ==
    /\ \A w \in Workers :
          (stop /\ Started(w)) ~> (pc[w] = "done" /\ registry[w].stopped_at # NULL)
    /\ [][\A w \in Workers : LoopTop(w) => w \in mgr.threads]_vars

(***************************************************************************)
(* Concurrent config-set commands: two clients, each on a store handle of  *)
(* its own, set max-retries and backoff-base to values of small sets.      *)
(***************************************************************************)
ConfigKeys == {"max_retries", "backoff_base"}
ConfigValues == {1, 4, 5}

NextConfig ==
    \/ \E c \in Clients, key \in ConfigKeys, value \in ConfigValues :
          ConfigRead(c, key, value)
    \/ \E c \in Clients : ConfigSave(c)

SpecConfig == Init /\ [][NextConfig]_vars

\* C37: config updates are not lost.  The save of a config-set stores the
\* new value of the key it names and leaves every other key as it is
\* stored at that moment, so that of two concurrent config-sets on
\* different keys both values are stored when both have completed.
C37_ConfigSetChangesOnlyItsKey ==
    [][\A c \in Clients :
          ConfigSave(c) =>
              /\ config'[inflight[c].key] = inflight[c].value
              /\ \A k \in DOMAIN config \ {inflight[c].key} :
                    config'[k] = config[k]]_vars

(***************************************************************************)
(* Busy workers: the registry of the pool, read by a client while workers  *)
(* run commands of any length, on a host without daylight saving.          *)
(***************************************************************************)
BusyJobIds == {"j1"}
BusyMaxRetries == {1}

\* The clock advances by a second at any moment, and by more only while
\* every worker that has started its loop is inside a command: a worker
\* without a job begins an iteration every worker_poll_interval seconds.
BusyTick(d) ==
    /\ d > 1 => \A w \in Workers : pc[w] \in {"start", "exec", "done"}
    /\ Tick(d)

NextBusy ==
    \/ \E id \in BusyJobIds, mr \in BusyMaxRetries : Enqueue(id, mr, 0, NoRunAt)
    \/ ActiveWorkers(ActiveStale)
    \/ \E w \in Workers : Startup(w)
    \/ \E w \in Workers : LoopTop(w)
    \/ \E w \in Workers : ReadRetryable(w)
    \/ \E w \in Workers : ClaimNext(w)
    \/ \E w \in Workers : ExecuteJob(w, TRUE)
    \/ \E w \in Workers : Exit(w)
    \/ SetStop
    \/ \E d \in {1, MinStaleSeconds} : BusyTick(d)

SpecBusy == Init /\ [][NextBusy]_vars

\* The workers that are registered, alive in their loop and not stopped.
AliveWorkers ==
    {w \in Workers :
        /\ pc[w] \in LoopPositions
        /\ registry[w].registered
        /\ registry[w].stopped_at = NULL}

\* C40: a registered worker that is alive and has not stopped is counted
\* by CountActiveWorkers(10) at every moment of its life, also while it
\* executes a job that runs for more than 10 seconds: the count is never
\* below the number of such workers.
C40_AliveWorkerIsCounted ==
    [][ActiveWorkers(ActiveStale) =>
          ret'.val >= Cardinality(AliveWorkers)]_vars

====
